---- MODULE Spec2Model ----
(***************************************************************************)
(* Dog lifecycle handling of the gastown daemon (handleDogs): the          *)
(* stuck-dog cleanup pass followed by the plugin dispatch pass, run by     *)
(* scheduler instances that share the dog registry, the tmux sessions,     *)
(* the plugin run history and the mail router.                             *)
(*                                                                         *)
(* Every call to a collaborator (dog.Manager, dog.SessionManager,          *)
(* plugin.Scanner, plugin.Recorder, mail.Router) is one atomic step; the   *)
(* daemons interleave between calls.  Each call that returns an error in   *)
(* the Go code can fail here, chosen nondeterministically.                 *)
(***************************************************************************)
EXTENDS Integers, Sequences, FiniteSets, TLC

\* ---------------------------------------------------------------- bounds
NumDogs == 2          \* dogs in the kennel, named 1..NumDogs in name order
MaxTime == 2          \* the clock runs 0..MaxTime

\* ------------------------------------------------------------- constants
Daemons == {"d1", "d2"}       \* scheduler instances sharing one town root
Dogs == 1..NumDogs
NoDog == 0                    \* GetIdleDog's nil result

StateIdle == "idle"
StateWorking == "working"
GateCooldown == "cooldown"
GateCron == "cron"
NoGate == "nil"

\* The plugins DiscoverAll finds, in discovery order.  gate is the gate's
\* type (NoGate: p.Gate == nil); duration is the cooldown window in clock
\* units, 0 standing for the empty duration string and Malformed for a
\* string that is no duration.
Malformed == -1

Plugins ==
    << [name |-> "bad",    gate |-> GateCooldown, duration |-> Malformed],
       [name |-> "cool",   gate |-> GateCooldown, duration |-> 2],
       [name |-> "nogate", gate |-> NoGate,       duration |-> 0],
       [name |-> "cron",   gate |-> GateCron,     duration |-> 0],
       [name |-> "open",   gate |-> GateCooldown, duration |-> 0] >>

PluginNames == {Plugins[i].name : i \in 1..Len(Plugins)}

\* The place of a plugin in discovery order.
PluginIndex(n) == CHOOSE i \in 1..Len(Plugins) : Plugins[i].name = n

VARIABLES
    dogState,     \* registry: dog -> StateIdle | StateWorking
    dogWork,      \* registry: dog -> work description ("" when none)
    session,      \* tmux: dog -> whether its session is alive
    now,          \* the clock
    runHistory,   \* recorder: set of <<plugin name, time of the run>>
    pc,           \* daemon -> where it is in handleDogs
    dogs,         \* daemon -> the list mgr.List() returned (dog -> state)
    idx,          \* daemon -> position in the range over dogs
    pidx,         \* daemon -> position in the range over plugins
    idleDog,      \* daemon -> the dog GetIdleDog returned
    lastOp,       \* the last collaborator call: who made it, which, its result
    lastStart,    \* timed plugin name -> time of the last session start for it
    stranded,     \* dogs a dead daemon process left working without a session
    fresh,        \* daemons whose cycle began after the last process death
    cycle,        \* daemon -> history of its dispatch pass: the dogs Idle when
                  \* it began and the dogs whose session it started since
                  \* (kept for the daemons of its domain)
    inbox,        \* mailbox: the active messages, oldest first
    archive,      \* mailbox: the archived messages, in the order archived
    listed,       \* mailbox: what the last List/ListArchived call returned
    mbOp,         \* mailbox instance -> its last call: which, on what, its result
    pending,      \* tracker: the []*PendingSpawn its last scan returned
    pendOp,       \* tracker: its last call, its argument, its result
    dbHead,       \* dolt: commit hash at the head of main
    dbCommits,    \* dolt: number of commits on main
    dbData,       \* dolt: number of writes whose data main holds
    tempBranch,   \* dolt: the gt-compaction branch, NoBranch when absent
    curBranch,    \* dolt: the branch the compactor's connection is on
    nextHash,     \* dolt: the hash the next commit gets
    cpc,          \* compactor: where it is in compactorDogFlattenDatabase
    mainHead,     \* compactor: main's HEAD recorded at step 2
    newHead,      \* compactor: the flattened commit's hash read at step 8
    flatOut,      \* compactor: what the last flatten returned
    tally,        \* compactor: totalCompacted, totalSkipped, totalFailed
    threshold,    \* compactor: what compactorDogCommitThreshold returns
    dbName,       \* compactor: the database the dolt variables describe
    others,       \* compactor: the other configured databases, next first
    tpc,          \* test process -> where it is in startDoltServer/CleanupDoltServer
    fd,           \* test process -> the lock file (inode) it has open, NoInode when none
    flock,        \* test process -> the flock it holds on its open file
    lockPath,     \* the inode the port's lock file path names, NoInode when absent
    pidFile,      \* the server the port's PID file names, NoServer when absent
    srv,          \* server -> unborn | starting | listening | dead
    dataDir,      \* server -> whether its data dir exists
    cmd,          \* test process -> the server it started, NoServer when none
    weStarted,    \* test process -> doltWeStarted
    flockKind,    \* how a failed LOCK_EX|LOCK_NB upgrade leaves the old lock
    procTable,    \* the processes running on the machine
    pidFiles,     \* the ports that have a dolt-test-server-*.pid file
    lockFiles,    \* the ports that have a dolt-test-server-*.lock file
    killedPIDs,   \* what the last reapStaleDoltServers killed, NotRun before
    files,        \* the content of each file of the work dir, Absent if none
    dirs,         \* the directories that exist
    ensured,      \* the last EnsurePluginAt call: its arguments and result
    injectedSessions, \* gastown.js: the session ids marked as injected
    awaits,       \* gastown.js: the getSessionContext calls awaited, oldest first
    log           \* gastown.js: the events delivered and the calls of
                  \* injectGasTownContext, in the order they happened

vars == << dogState, dogWork, session, now, runHistory, pc, dogs, idx,
           pidx, idleDog, lastOp, lastStart, stranded, fresh, cycle,
           inbox, archive, listed, mbOp, pending, pendOp,
           dbHead, dbCommits, dbData, tempBranch, curBranch, nextHash,
           cpc, mainHead, newHead, flatOut, tally, threshold, dbName, others,
           tpc, fd, flock, lockPath, pidFile, srv, dataDir, cmd, weStarted,
           flockKind, procTable, pidFiles, lockFiles, killedPIDs,
           files, dirs, ensured, injectedSessions, awaits, log >>

mail == << inbox, archive, listed, mbOp >>

sched == << dogState, dogWork, session, now, runHistory, pc, dogs, idx,
            pidx, idleDog, lastOp, lastStart, stranded, fresh, cycle >>

shared == << dogState, dogWork, session, now, runHistory >>

pend == << pending, pendOp >>

dolt == << dbHead, dbCommits, dbData, tempBranch, curBranch, nextHash >>

flat == << cpc, mainHead, newHead, flatOut, tally >>

dbs == << dbName, others >>

testsrv == << tpc, fd, flock, lockPath, pidFile, srv, dataDir, cmd, weStarted,
             flockKind >>

reap == << procTable, pidFiles, lockFiles, killedPIDs >>

plugin == << files, dirs, ensured >>

gastown == << injectedSessions, awaits, log >>

\* What the steps of one component leave alone.
notSched == << mail, pend, dolt, flat, threshold, dbs, testsrv, reap, plugin,
    gastown >>

notMail == << sched, pend, dolt, flat, threshold, dbs, testsrv, reap, plugin,
    gastown >>

notPend == << dogState, dogWork, session, runHistory, pc, dogs, idx,
              pidx, idleDog, lastOp, lastStart, stranded, fresh, cycle,
              dolt, flat, threshold, dbs, testsrv, reap, plugin, gastown >>

notCompactor == << sched, mail, pend, testsrv, reap, plugin, gastown,
                  threshold >>

notFlat == << notCompactor, dbs >>

notTestsrv == << sched, mail, pend, dolt, flat, threshold, dbs, reap, plugin,
    gastown >>

notReap == << sched, mail, pend, dolt, flat, threshold, dbs, testsrv, plugin,
    gastown >>

notGastown == << sched, mail, pend, dolt, flat, threshold, dbs, testsrv, reap,
                plugin >>

notPlugin == << sched, mail, pend, dolt, flat, threshold, dbs, testsrv, reap,
    gastown >>

\* ------------------------------------------------------------ registry
\* dog.Manager, consumed through List/GetIdleDog/AssignWork/ClearWork.

\* GetIdleDog: the first idle dog in name order, NoDog when there is none.
GetIdleDog ==
    IF \E g \in Dogs : dogState[g] = StateIdle
    THEN CHOOSE g \in Dogs :
            /\ dogState[g] = StateIdle
            /\ \A h \in Dogs : dogState[h] = StateIdle => g <= h
    ELSE NoDog

\* AssignWork succeeds only on an idle dog (check and set in one step).
AssignWorkAllowed(g) == dogState[g] = StateIdle

AssignWork(g, desc) ==
    /\ dogState' = [dogState EXCEPT ![g] = StateWorking]
    /\ dogWork' = [dogWork EXCEPT ![g] = desc]

\* ClearWork returns the dog to idle and drops the description.
ClearWork(g) ==
    /\ dogState' = [dogState EXCEPT ![g] = StateIdle]
    /\ dogWork' = [dogWork EXCEPT ![g] = ""]

\* ------------------------------------------------------------ recorder
\* CountRunsSince cannot compute the window of a string that is no
\* duration: it returns an error.
DurationValid(duration) == duration >= 0

\* CountRunsSince(name, duration): runs of the plugin within the trailing
\* window that ends now.
CountRunsSince(name, duration) ==
    Cardinality({r \in runHistory : r[1] = name /\ r[2] > now - duration})

\* ------------------------------------------------------------- helpers
Op(d, o, a, r) == [who |-> d, op |-> o, arg |-> a, res |-> r]

Result(ok) == IF ok THEN "ok" ELSE "err"

\* The dogs slice outside cleanupStuckDogs.
NoDogs == [g \in Dogs |-> StateIdle]

\* No history of the dispatch passes is kept.
NotKept == << >>

\* The history of a dispatch pass outside dispatchPlugins.
NoCycle == [idle |-> {}, started |-> << >>, freed |-> << >>]

\* The positions of dispatchPlugins.
DispatchPcs == {"discover", "gate", "getidle", "assign", "start", "rollback", "send"}

\* The history a step of daemon d leaves, where one is kept.  For d: when
\* dispatchPlugins begins, the dogs that are Idle then; after a successful
\* sm.Start, the dog started; nothing once the cycle is over.  For a
\* daemon in its dispatch pass while the stuck-repair of d clears a dog:
\* that dog.
Track(d) ==
    IF DOMAIN cycle = {} THEN UNCHANGED cycle
    ELSE cycle' = [e \in DOMAIN cycle |->
        IF e = d
        THEN IF pc'[d] = "idle" THEN NoCycle
             ELSE IF pc'[d] = "discover" /\ pc[d] # "discover"
             THEN [NoCycle EXCEPT !.idle = {g \in Dogs : dogState'[g] = StateIdle}]
             ELSE IF pc[d] = "start" /\ pc'[d] = "send"
             THEN [cycle[d] EXCEPT !.started = Append(@, idleDog[d])]
             ELSE cycle[d]
        ELSE IF /\ pc[d] = "clear"
                /\ lastOp' = Op(d, "ClearWork", idx[d], "ok")
                /\ pc[e] \in DispatchPcs
             THEN [cycle[e] EXCEPT !.freed = Append(@, idx[d])]
             ELSE cycle[e]]

\* Mutant of WorkDesc: the description is left empty.
WorkDescEmpty(p) == ""

\* workDesc := fmt.Sprintf("plugin:%s", p.Name)
WorkDesc(p) == "plugin:" \o p.name

\* dg.State != dog.StateWorking: continue.
NeedsProbe(st) == st = StateWorking

\* The next dog of the list, from position i on, that the range over dogs
\* does not pass over at once (NoDog: the range ends).
NextWorking(i, list) ==
    IF \E g \in i..NumDogs : NeedsProbe(list[g])
    THEN CHOOSE g \in i..NumDogs :
            /\ NeedsProbe(list[g])
            /\ \A h \in i..NumDogs : NeedsProbe(list[h]) => g <= h
    ELSE NoDog

\* Go on in the range over list from position i; after the last dog
\* cleanupStuckDogs returns and dispatchPlugins begins.
RangeDogs(d, i, list) ==
    LET n == NextWorking(i, list) IN
    IF n = NoDog
    THEN /\ pc' = [pc EXCEPT ![d] = "discover"]
         /\ idx' = [idx EXCEPT ![d] = 0]
         /\ dogs' = [dogs EXCEPT ![d] = NoDogs]
    ELSE /\ pc' = [pc EXCEPT ![d] = "probe"]
         /\ idx' = [idx EXCEPT ![d] = n]
         /\ dogs' = [dogs EXCEPT ![d] = list]

\* continue in the range over dogs.
NextDog(d) == RangeDogs(d, idx[d] + 1, dogs[d])

\* Mutant of Dispatchable: the gate type is not checked.
DispatchableAny(p) == TRUE

\* Only dispatch plugins with cooldown gates.
Dispatchable(p) == ~(p.gate = NoGate \/ p.gate # GateCooldown)

\* p.Gate.Duration != "": the cooldown has to be evaluated.
HasDuration(p) == p.duration # 0

\* count > 0: still in cooldown.
InCooldown(count) == count > 0

\* The next plugin, from position i on, that the range over plugins does
\* not pass over at once (0: the range ends).
NextGated(i) ==
    IF \E k \in i..Len(Plugins) : Dispatchable(Plugins[k])
    THEN CHOOSE k \in i..Len(Plugins) :
            /\ Dispatchable(Plugins[k])
            /\ \A j \in i..Len(Plugins) : Dispatchable(Plugins[j]) => k <= j
    ELSE 0

\* return from dispatchPlugins: handleDogs is over.
EndCycle(d) ==
    /\ pc' = [pc EXCEPT ![d] = "idle"]
    /\ pidx' = [pidx EXCEPT ![d] = 0]
    /\ idleDog' = [idleDog EXCEPT ![d] = NoDog]

\* Go on in the range over plugins from position i: to the cooldown
\* evaluation of the next gated plugin, or straight to GetIdleDog when its
\* duration is empty.
RangePlugins(d, i) ==
    LET k == NextGated(i) IN
    IF k = 0
    THEN EndCycle(d)
    ELSE /\ pc' = [pc EXCEPT ![d] = IF HasDuration(Plugins[k]) THEN "gate" ELSE "getidle"]
         /\ pidx' = [pidx EXCEPT ![d] = k]
         /\ idleDog' = [idleDog EXCEPT ![d] = NoDog]

\* continue in the range over plugins.
NextPlugin(d) == RangePlugins(d, pidx[d] + 1)

\* The plugins whose cooldown has a duration.
TimedNames ==
    {Plugins[i].name : i \in {k \in 1..Len(Plugins) :
                                 Dispatchable(Plugins[k]) /\ HasDuration(Plugins[k])}}

\* -------------------------------------------------------------- mailbox
\* mail.Mailbox: one backing store (an active set and an archived set),
\* used through several Mailbox instances, possibly in different
\* processes.  Each call is one atomic step.

\* The instances that share the backing store.
Instances == {"tracker", "worker"}

\* The messages of the test mailbox.  timestamp is in minutes.
Messages ==
    { [id |-> "mail-001", subject |-> "POLECAT_STARTED gastown/Toast",
       body |-> "Session: gt-gastown-polecat-Toast\nIssue: gt-abc",
       type |-> "notification", timestamp |-> 0],
      [id |-> "mail-002", subject |-> "POLECAT_STARTED gastown/Toast",
       body |-> "Session: gt-gastown-polecat-Toast\nIssue: gt-abc",
       type |-> "notification", timestamp |-> 1],
      [id |-> "mail-003", subject |-> "POLECAT_STARTED gastown/Nux",
       body |-> "Session: gt-gastown-polecat-Nux\nIssue: gt-def",
       type |-> "task", timestamp |-> 2] }

\* The ids callers pass to ArchiveByID; "mail-404" is never appended.
MsgIds == {m.id : m \in Messages} \cup {"mail-404"}

MbOp(i, o, a, r) == [who |-> i, op |-> o, arg |-> a, res |-> r]

Ids(box) == {box[k].id : k \in 1..Len(box)}

\* The messages of a box with the given id, and the box without them.
WithId(box, id) == SelectSeq(box, LAMBDA x : x.id = id)

WithoutId(box, id) == SelectSeq(box, LAMBDA x : x.id # id)

MailInit ==
    /\ inbox = << >>
    /\ archive = << >>
    /\ listed = << >>
    /\ mbOp = [i \in Instances |-> MbOp(i, "none", "", "ok")]

\* Mutant of Stored: the store keeps no timestamp.
StoredWithoutTimestamp(m) == [m EXCEPT !.timestamp = 0]

\* What Append writes for a message that carries an id: the message as it
\* is, no new identity.
Stored(m) == m

\* Append(message): durable write to the active set; on I/O failure it
\* returns a StorageError and nothing is written.  A message's id is
\* unique, assigned at creation.
MailboxAppend(i, m) ==
    /\ m.id \notin Ids(inbox) \cup Ids(archive)
    /\ \E ok \in BOOLEAN :
        IF ok
        THEN /\ mbOp' = [mbOp EXCEPT ![i] = MbOp(i, "Append", m.id, "ok")]
             /\ inbox' = Append(inbox, Stored(m))
             /\ UNCHANGED << archive, listed >>
        ELSE UNCHANGED mail
    /\ UNCHANGED notMail

\* List(): the active messages, oldest first.
MailboxList(i) ==
    /\ \E ok \in BOOLEAN :
        IF ok
        THEN /\ mbOp' = [mbOp EXCEPT ![i] = MbOp(i, "List", "", "ok")]
             /\ listed' = inbox
             /\ UNCHANGED << inbox, archive >>
        ELSE UNCHANGED mail
    /\ UNCHANGED notMail

\* ListArchived(): the archived messages.
ListArchived(i) ==
    /\ \E ok \in BOOLEAN :
        IF ok
        THEN /\ mbOp' = [mbOp EXCEPT ![i] = MbOp(i, "ListArchived", "", "ok")]
             /\ listed' = archive
             /\ UNCHANGED << inbox, archive >>
        ELSE UNCHANGED mail
    /\ UNCHANGED notMail

\* Mutant of Archived: a message is written to the archive whether or not
\* it is still active.
ArchivedAgain(id) == archive \o WithId(inbox \o archive, id)

\* The archived set after ArchiveByID(id).
Archived(id) == archive \o WithId(inbox, id)

\* Mutant of Unfiled: the message is copied to the archive and stays
\* active.
UnfiledKept(id) == inbox

\* The active set after ArchiveByID(id).
Unfiled(id) == WithoutId(inbox, id)

\* Mutant of ArchiveByID: an id that is not active is an error.
ArchiveByIDStrict(i, id) ==
    /\ \E ok \in BOOLEAN :
        IF ok /\ id \in Ids(inbox)
        THEN /\ mbOp' = [mbOp EXCEPT ![i] = MbOp(i, "ArchiveByID", id, "ok")]
             /\ inbox' = Unfiled(id)
             /\ archive' = Archived(id)
             /\ UNCHANGED listed
        ELSE UNCHANGED mail
    /\ UNCHANGED notMail

\* ArchiveByID(id): moves the message from the active to the archived set;
\* a no-op, not an error, when the id is not active.  On I/O failure
\* nothing is moved.
ArchiveByID(i, id) ==
    /\ \E ok \in BOOLEAN :
        IF ok
        THEN /\ mbOp' = [mbOp EXCEPT ![i] = MbOp(i, "ArchiveByID", id, "ok")]
             /\ inbox' = Unfiled(id)
             /\ archive' = Archived(id)
             /\ UNCHANGED listed
        ELSE UNCHANGED mail
    /\ UNCHANGED notMail

\* Mailbox instances working on the one backing store.
NextMail ==
    \/ \E i \in Instances, m \in Messages : MailboxAppend(i, m)
    \/ \E i \in Instances : MailboxList(i)
    \/ \E i \in Instances : ListArchived(i)
    \/ \E i \in Instances, id \in MsgIds : ArchiveByID(i, id)

\* --------------------------------------------------- pending spawns
\* The polecat pending-spawn tracker: checkMailboxForSpawns,
\* clearPendingSpawnFromList and pruneStalePendingFromList over one
\* mailbox.  A string is the sequence of its fragments, so that prefix
\* tests and splitting work on it as they do on the characters.

\* strings.HasPrefix and strings.TrimPrefix.
HasPrefix(str, prefix) ==
    /\ Len(str) >= Len(prefix)
    /\ SubSeq(str, 1, Len(prefix)) = prefix

TrimPrefix(str, prefix) ==
    IF HasPrefix(str, prefix) THEN SubSeq(str, Len(prefix) + 1, Len(str)) ELSE str

\* strings.Index for a one-fragment separator: the first position of sep,
\* 0 when it does not occur.
Index(str, sep) ==
    IF \E k \in 1..Len(str) : str[k] = sep
    THEN CHOOSE k \in 1..Len(str) :
            /\ str[k] = sep
            /\ \A j \in 1..(k - 1) : str[j] # sep
    ELSE 0

\* The subject prefix of a "work started" notification and the body keys.
StartedPrefix == << "POLECAT_STARTED", " " >>
SessionKey == << "Session", ": " >>
IssueKey == << "Issue", ": " >>

Toast == << "gt-gastown-polecat-Toast" >>
Nux == << "gt-gastown-polecat-Nux" >>
NoSuchSession == << "nonexistent-session" >>

\* The mail of the test mailboxes: started notifications of two polecats
\* (two for Toast), a health check, unrelated mail, a subject without the
\* "/" separator and a notification whose body has no Session line.
\* body is the list of its lines; timestamp is in minutes.
Notices ==
    << [id |-> "mail-001",
        subject |-> << "POLECAT_STARTED", " ", "gastown", "/", "Toast" >>,
        body |-> << << "Session", ": ", "gt-gastown-polecat-Toast" >>,
                    << "Issue", ": ", "gt-abc" >> >>,
        type |-> "notification", timestamp |-> 0],
       [id |-> "mail-002",
        subject |-> << "POLECAT_STARTED", " ", "gastown", "/", "Toast" >>,
        body |-> << << "Session", ": ", "gt-gastown-polecat-Toast" >>,
                    << "Issue", ": ", "gt-abc" >> >>,
        type |-> "notification", timestamp |-> 1],
       [id |-> "mail-003",
        subject |-> << "POLECAT_STARTED", " ", "gastown", "/", "Nux" >>,
        body |-> << << "Session", ": ", "gt-gastown-polecat-Nux" >>,
                    << "Issue", ": ", "gt-def" >> >>,
        type |-> "notification", timestamp |-> 1],
       [id |-> "mail-004",
        subject |-> << "HEALTH_CHECK", " ", "gastown", "/", "Toast" >>,
        body |-> << << "Session", ": ", "gt-gastown-polecat-Toast" >> >>,
        type |-> "notification", timestamp |-> 0],
       [id |-> "mail-005",
        subject |-> << "Some", " ", "other", " ", "mail" >>,
        body |-> << << "Not", " ", "a", " ", "spawn", " ", "notification" >> >>,
        type |-> "task", timestamp |-> 0],
       [id |-> "mail-006",
        subject |-> << "POLECAT_STARTED", " ", "no-slash-here" >>,
        body |-> << << "Session", ": ", "some-session" >>,
                    << "Issue", ": ", "gt-abc" >> >>,
        type |-> "notification", timestamp |-> 0],
       [id |-> "mail-007",
        subject |-> << "POLECAT_STARTED", " ", "gastown", "/", "Toast" >>,
        body |-> << << "Issue", ": ", "gt-abc" >> >>,
        type |-> "notification", timestamp |-> 0] >>

NoticeIds == {Notices[k].id : k \in 1..Len(Notices)}

\* The mailboxes the tracker starts on: the notices with the given ids, in
\* the order above.
Fixture(ids) == SelectSeq(Notices, LAMBDA m : m.id \in ids)

Fixtures ==
    { Fixture({"mail-001"}),
      Fixture({"mail-001", "mail-004", "mail-005"}),
      Fixture({"mail-006"}),
      Fixture({"mail-001", "mail-002", "mail-003"}),
      Fixture({"mail-001", "mail-002", "mail-007"}),
      << >> }

\* PendingSpawn.mailbox: the mailbox scanned, or nil.
TheMailbox == "mailbox"
NilMailbox == "nil"

\* The value of the first body line that starts with key, << >> when no
\* line does.
BodyField(body, key) ==
    IF \E k \in 1..Len(body) : HasPrefix(body[k], key)
    THEN TrimPrefix(body[CHOOSE k \in 1..Len(body) :
                            /\ HasPrefix(body[k], key)
                            /\ \A j \in 1..(k - 1) : ~HasPrefix(body[j], key)],
                    key)
    ELSE << >>

\* Whether a message is a started notification "<EVENT> <rig>/<polecat>"
\* with the Session and Issue lines.
IsSpawn(msg) ==
    /\ HasPrefix(msg.subject, StartedPrefix)
    /\ Index(TrimPrefix(msg.subject, StartedPrefix), "/") # 0
    /\ BodyField(msg.body, SessionKey) # << >>
    /\ BodyField(msg.body, IssueKey) # << >>

\* The PendingSpawn of a started notification.
ParseSpawn(msg, mb) ==
    LET name == TrimPrefix(msg.subject, StartedPrefix)
        cut == Index(name, "/")
    IN  [Rig |-> SubSeq(name, 1, cut - 1),
         Polecat |-> SubSeq(name, cut + 1, Len(name)),
         Session |-> BodyField(msg.body, SessionKey),
         Issue |-> BodyField(msg.body, IssueKey),
         SpawnedAt |-> msg.timestamp,
         MailID |-> msg.id,
         mailbox |-> mb]

\* The spawns of a list of messages, in mailbox order.
RECURSIVE Spawns(_, _)
Spawns(box, mb) ==
    IF box = << >> THEN << >>
    ELSE (IF IsSpawn(Head(box)) THEN << ParseSpawn(Head(box), mb) >> ELSE << >>)
            \o Spawns(Tail(box), mb)

\* A list built by the caller whose entry has no mailbox.
NilPending ==
    << [Rig |-> << >>, Polecat |-> << >>, Session |-> Toast, Issue |-> << >>,
        SpawnedAt |-> 0, MailID |-> "mail-001", mailbox |-> NilMailbox] >>

PendOp(o, a, r, n) == [op |-> o, arg |-> a, res |-> r, n |-> n]

PendInit ==
    /\ pending = << >>
    /\ pendOp = PendOp("none", << >>, "ok", 0)

\* Mutant of ArchiveEntries: an entry without a mailbox is passed over.
RECURSIVE ArchiveEntriesSkipNil(_, _, _, _, _, _)
ArchiveEntriesSkipNil(todo, i, box, arch, n, failAt) ==
    IF i > Len(todo)
    THEN [inbox |-> box, archive |-> arch, res |-> "ok", n |-> n]
    ELSE IF todo[i].mailbox = NilMailbox
    THEN ArchiveEntriesSkipNil(todo, i + 1, box, arch, n, failAt)
    ELSE IF failAt = i
    THEN [inbox |-> box, archive |-> arch, res |-> "err", n |-> n]
    ELSE ArchiveEntriesSkipNil(todo, i + 1, WithoutId(box, todo[i].MailID),
                               arch \o WithId(box, todo[i].MailID), n + 1, failAt)

\* Archives the entries of todo from the i-th on, in order, through each
\* entry's mailbox: an entry without a mailbox ends the call with the
\* nil-mailbox error, the failAt-th archive call with a storage error.
\* n counts the archive calls that returned success.
RECURSIVE ArchiveEntries(_, _, _, _, _, _)
ArchiveEntries(todo, i, box, arch, n, failAt) ==
    IF i > Len(todo)
    THEN [inbox |-> box, archive |-> arch, res |-> "ok", n |-> n]
    ELSE IF todo[i].mailbox = NilMailbox
    THEN [inbox |-> box, archive |-> arch, res |-> "nil mailbox", n |-> n]
    ELSE IF failAt = i
    THEN [inbox |-> box, archive |-> arch, res |-> "err", n |-> n]
    ELSE ArchiveEntries(todo, i + 1, WithoutId(box, todo[i].MailID),
                        arch \o WithId(box, todo[i].MailID), n + 1, failAt)

\* Mutant of checkMailboxForSpawns: no back-reference to the mailbox.
checkMailboxForSpawnsNoMailbox ==
    /\ \E ok \in BOOLEAN :
        /\ pending' = IF ok THEN Spawns(inbox, NilMailbox) ELSE pending
        /\ pendOp' = PendOp("scan", << >>, Result(ok),
                            IF ok THEN Len(Spawns(inbox, NilMailbox)) ELSE 0)
    /\ UNCHANGED << mail, now, notPend >>

\* checkMailboxForSpawns(mb): List(), then one PendingSpawn per started
\* notification; a message that does not parse is skipped.
checkMailboxForSpawns ==
    /\ \E ok \in BOOLEAN :
        /\ pending' = IF ok THEN Spawns(inbox, TheMailbox) ELSE pending
        /\ pendOp' = PendOp("scan", << >>, Result(ok),
                            IF ok THEN Len(Spawns(inbox, TheMailbox)) ELSE 0)
    /\ UNCHANGED << mail, now, notPend >>

\* The entries of a list for a session.
ForSession(list, sess) == SelectSeq(list, LAMBDA ps : ps.Session = sess)

\* Mutant of clearPendingSpawnFromList: archives every entry of the list.
clearPendingSpawnFromListAll(list, sess) ==
    /\ \E failAt \in 0..Len(list) :
        LET r == ArchiveEntries(list, 1, inbox, archive, 0, failAt)
        IN  /\ inbox' = r.inbox
            /\ archive' = r.archive
            /\ pendOp' = PendOp("clear", sess, r.res, r.n)
    /\ UNCHANGED << listed, mbOp, pending, now, notPend >>

\* clearPendingSpawnFromList(pending, session): ArchiveByID for every
\* entry of that session.
clearPendingSpawnFromList(list, sess) ==
    /\ \E failAt \in 0..Len(ForSession(list, sess)) :
        LET r == ArchiveEntries(ForSession(list, sess), 1, inbox, archive, 0, failAt)
        IN  /\ inbox' = r.inbox
            /\ archive' = r.archive
            /\ pendOp' = PendOp("clear", sess, r.res, r.n)
    /\ UNCHANGED << listed, mbOp, pending, now, notPend >>

\* Mutant of IsStale: an entry exactly maxAge old is stale.
IsStaleInclusive(ps, maxAge) == ps.SpawnedAt <= now - maxAge

\* Whether an entry was spawned before now - maxAge.
IsStale(ps, maxAge) == ps.SpawnedAt < now - maxAge

Stale(list, maxAge) == SelectSeq(list, LAMBDA ps : IsStale(ps, maxAge))

\* The maxAge values callers pass, in minutes.
MaxAges == {0, 1}

\* pruneStalePendingFromList(pending, maxAge): ArchiveByID for every stale
\* entry; returns how many it archived.
pruneStalePendingFromList(list, maxAge) ==
    /\ \E failAt \in 0..Len(Stale(list, maxAge)) :
        LET r == ArchiveEntries(Stale(list, maxAge), 1, inbox, archive, 0, failAt)
        IN  /\ inbox' = r.inbox
            /\ archive' = r.archive
            /\ pendOp' = PendOp("prune", maxAge, r.res, r.n)
    /\ UNCHANGED << listed, mbOp, pending, now, notPend >>

\* The lists a caller hands to clear and prune: the last scan's, one it
\* built itself, or both together.
PendingLists == {pending, NilPending, pending \o NilPending}

Sessions == {Toast, Nux, NoSuchSession}

\* ------------------------------------------------------ compactor dog
\* runCompactorDog over the configured databases, one after the other,
\* next to writers that commit to main of the database being processed.
\* Every SQL statement is one atomic step and can fail.  A commit hash is
\* a number; the root commit has hash RootHash.

MaxHash == 5          \* hashes are RootHash..MaxHash

RootHash == 0
NoHash == -1
NoBranch == [head |-> NoHash, commits |-> 0, data |-> 0]

\* compactorDogCommitThreshold, scaled to a history of a few commits.
Threshold == 3

\* The commits of the flattened history: the root and the one commit that
\* carries all the data.
FlatCommits == 2

Outcomes == {"compacted", "skipped", "failed"}
NoTally == [o \in Outcomes |-> 0]

\* compactorDogDatabases: the default list, of which a prefix is
\* configured.
Databases == << "hq", "beads" >>

\* A database as runCompactorDog finds it when it is not the one being
\* processed.
Database(name, head, commits, data, temp) ==
    [name |-> name, head |-> head, commits |-> commits, data |-> data,
     temp |-> temp]

\* n databases, each with its root commit only, and a threshold of ts.
FlatInitOn(n, ts) ==
    /\ dbName = Databases[1]
    /\ others = [i \in 1..(n - 1) |->
                    Database(Databases[i + 1], RootHash, 1, 0, NoBranch)]
    /\ threshold \in ts
    /\ dbHead = RootHash
    /\ dbCommits = 1
    /\ dbData = 0
    /\ tempBranch = NoBranch
    /\ curBranch = "main"
    /\ nextHash = RootHash + 1
    /\ cpc = "idle"
    /\ mainHead = NoHash
    /\ newHead = NoHash
    /\ flatOut = "none"
    /\ tally = NoTally

\* The thresholds a configuration sets: the default, and the least one.
Thresholds == {1, Threshold}

FlatInit == FlatInitOn(1, {Threshold})

\* A writer commits to main on its own connection.
WriterCommit ==
    /\ nextHash <= MaxHash
    /\ dbHead' = nextHash
    /\ dbCommits' = dbCommits + 1
    /\ dbData' = dbData + 1
    /\ nextHash' = nextHash + 1
    /\ UNCHANGED << tempBranch, curBranch, flat, notFlat >>

\* compactorDogFlattenDatabase returns: (true, nil), (false, nil) or an
\* error.
Return(out) ==
    /\ cpc' = "tally"
    /\ flatOut' = out

\* runCompactorDog starts a cycle: a new connection, on main.
RunCompactorDog ==
    /\ cpc = "idle"
    /\ cpc' = "count"
    /\ curBranch' = "main"
    /\ tally' = NoTally
    /\ flatOut' = "none"
    /\ mainHead' = NoHash
    /\ newHead' = NoHash
    /\ UNCHANGED << dbHead, dbCommits, dbData, tempBranch, nextHash, notFlat >>

\* 1. Count commits; below the threshold the database is skipped.
CountCommits ==
    /\ cpc = "count"
    /\ \E ok \in BOOLEAN :
        IF ~ok THEN Return("failed")
        ELSE IF dbCommits < threshold THEN Return("skipped")
        ELSE cpc' = "head" /\ UNCHANGED flatOut
    /\ UNCHANGED << dolt, mainHead, newHead, tally, notFlat >>

\* 2. Record main's HEAD.
GetMainHead ==
    /\ cpc = "head"
    /\ \E ok \in BOOLEAN :
        IF ok
        THEN cpc' = "root" /\ mainHead' = dbHead /\ UNCHANGED flatOut
        ELSE Return("failed") /\ UNCHANGED mainHead
    /\ UNCHANGED << dolt, newHead, tally, notFlat >>

\* 3. Get the root hash; a history of one commit is already flat.
GetRootHash ==
    /\ cpc = "root"
    /\ \E ok \in BOOLEAN :
        IF ~ok THEN Return("failed")
        ELSE IF mainHead = RootHash THEN Return("skipped")
        ELSE cpc' = "cleantemp" /\ UNCHANGED flatOut
    /\ UNCHANGED << dolt, mainHead, newHead, tally, notFlat >>

\* 4. Delete a leftover temp branch; the result is ignored.
CleanTemp ==
    /\ cpc = "cleantemp"
    /\ cpc' = "branch"
    /\ \E ok \in BOOLEAN : tempBranch' = IF ok THEN NoBranch ELSE tempBranch
    /\ UNCHANGED << dbHead, dbCommits, dbData, curBranch, nextHash,
                    mainHead, newHead, flatOut, tally, notFlat >>

\* 5. DOLT_CHECKOUT('-b', temp): a new branch at the current HEAD; fails
\* when the branch exists.
CreateTemp ==
    /\ cpc = "branch"
    /\ \E ok \in BOOLEAN :
        IF ok /\ tempBranch = NoBranch
        THEN /\ cpc' = "softreset"
             /\ tempBranch' = [head |-> dbHead, commits |-> dbCommits,
                               data |-> dbData]
             /\ curBranch' = "temp"
             /\ UNCHANGED flatOut
        ELSE Return("failed") /\ UNCHANGED << tempBranch, curBranch >>
    /\ UNCHANGED << dbHead, dbCommits, dbData, nextHash, mainHead, newHead,
                    tally, notFlat >>

\* The cleanup after a failed step on the temp branch: checkout main, then
\* delete the temp branch; neither result is looked at.  The branch the
\* connection is on cannot be deleted.
Cleanup ==
    \E back, del \in BOOLEAN :
        /\ curBranch' = IF back THEN "main" ELSE curBranch
        /\ tempBranch' = IF back /\ del THEN NoBranch ELSE tempBranch

\* 6. Soft reset the temp branch to the root commit.
SoftReset ==
    /\ cpc = "softreset"
    /\ \E ok \in BOOLEAN :
        IF ok
        THEN /\ cpc' = "commit"
             /\ tempBranch' = [tempBranch EXCEPT !.head = RootHash, !.commits = 1]
             /\ UNCHANGED << curBranch, flatOut >>
        ELSE Return("failed") /\ Cleanup
    /\ UNCHANGED << dbHead, dbCommits, dbData, nextHash, mainHead, newHead,
                    tally, notFlat >>

\* 7. Commit all the data as one commit.
CommitFlat ==
    /\ cpc = "commit"
    /\ nextHash <= MaxHash
    /\ \E ok \in BOOLEAN :
        IF ok
        THEN /\ cpc' = "newhead"
             /\ tempBranch' = [tempBranch EXCEPT !.head = nextHash,
                                                 !.commits = FlatCommits]
             /\ nextHash' = nextHash + 1
             /\ UNCHANGED << curBranch, flatOut >>
        ELSE Return("failed") /\ Cleanup /\ UNCHANGED nextHash
    /\ UNCHANGED << dbHead, dbCommits, dbData, mainHead, newHead, tally, notFlat >>

\* 8. Read the flattened commit's hash: HEAD of the current branch.
GetNewHead ==
    /\ cpc = "newhead"
    /\ \E ok \in BOOLEAN :
        IF ok
        THEN /\ cpc' = "checkout"
             /\ newHead' = tempBranch.head
             /\ UNCHANGED << tempBranch, curBranch, flatOut >>
        ELSE Return("failed") /\ Cleanup /\ UNCHANGED newHead
    /\ UNCHANGED << dbHead, dbCommits, dbData, nextHash, mainHead, tally, notFlat >>

\* 9. Switch back to main.
CheckoutMain ==
    /\ cpc = "checkout"
    /\ \E ok \in BOOLEAN :
        IF ok
        THEN cpc' = "verifyhead" /\ curBranch' = "main" /\ UNCHANGED flatOut
        ELSE Return("failed") /\ UNCHANGED curBranch
    /\ UNCHANGED << dbHead, dbCommits, dbData, tempBranch, nextHash,
                    mainHead, newHead, tally, notFlat >>

\* DOLT_BRANCH('-D', temp) with the result ignored.
DeleteTemp == \E del \in BOOLEAN : tempBranch' = IF del THEN NoBranch ELSE tempBranch

\* Mutant of MainMoved: the concurrency check is skipped.
MainMovedIgnored(currentMain) == FALSE

\* The concurrency check of step 10.
MainMoved(currentMain) == currentMain # mainHead

\* 10. Read main's HEAD again; when it moved, delete the temp branch and
\* return (false, nil).
VerifyMainHead ==
    /\ cpc = "verifyhead"
    /\ \E ok \in BOOLEAN :
        IF ~ok THEN Return("failed") /\ DeleteTemp
        ELSE IF MainMoved(dbHead) THEN Return("skipped") /\ DeleteTemp
        ELSE cpc' = "hardreset" /\ UNCHANGED << tempBranch, flatOut >>
    /\ UNCHANGED << dbHead, dbCommits, dbData, curBranch, nextHash,
                    mainHead, newHead, tally, notFlat >>

\* 11. Hard reset main to the flattened commit.
HardReset ==
    /\ cpc = "hardreset"
    /\ \E ok \in BOOLEAN :
        IF ok
        THEN /\ cpc' = "deltemp"
             /\ dbHead' = newHead
             /\ dbCommits' = FlatCommits
             /\ dbData' = tempBranch.data
             /\ UNCHANGED << tempBranch, flatOut >>
        ELSE /\ Return("failed") /\ DeleteTemp
             /\ UNCHANGED << dbHead, dbCommits, dbData >>
    /\ UNCHANGED << curBranch, nextHash, mainHead, newHead, tally, notFlat >>

\* 12 and 13. Delete the temp branch (a failure is only logged), count the
\* commits for the log, return (true, nil).
FinishFlatten ==
    /\ cpc = "deltemp"
    /\ Return("compacted")
    /\ DeleteTemp
    /\ UNCHANGED << dbHead, dbCommits, dbData, curBranch, nextHash,
                    mainHead, newHead, tally, notFlat >>

\* The last configured database.
LastDatabase == Databases[1 + Len(others)]

\* Mutant of Tally: the loop over the databases ends with the first one.
TallyStops ==
    /\ cpc = "tally"
    /\ cpc' = "idle"
    /\ tally' = [tally EXCEPT ![flatOut] = @ + 1]
    /\ UNCHANGED << dolt, mainHead, newHead, flatOut, notFlat >>

\* runCompactorDog counts the database as compacted, skipped or failed and
\* goes on with the next database, on a new connection, whatever the
\* outcome was; after the last one the cycle ends.
Tally ==
    /\ cpc = "tally"
    /\ tally' = [tally EXCEPT ![flatOut] = @ + 1]
    /\ IF others = << >>
       THEN /\ cpc' = "idle"
            /\ UNCHANGED << dolt, mainHead, newHead, dbs >>
       ELSE /\ dbName' = Head(others).name
            /\ dbHead' = Head(others).head
            /\ dbCommits' = Head(others).commits
            /\ dbData' = Head(others).data
            /\ tempBranch' = Head(others).temp
            /\ others' = Append(Tail(others),
                    Database(dbName, dbHead, dbCommits, dbData, tempBranch))
            /\ curBranch' = "main"
            /\ UNCHANGED nextHash
            /\ IF dbName = LastDatabase
               THEN cpc' = "idle" /\ UNCHANGED << mainHead, newHead >>
               ELSE cpc' = "count" /\ mainHead' = NoHash /\ newHead' = NoHash
    /\ UNCHANGED << flatOut, notCompactor >>

CompactorStep ==
    \/ RunCompactorDog
    \/ CountCommits
    \/ GetMainHead
    \/ GetRootHash
    \/ CleanTemp
    \/ CreateTemp
    \/ SoftReset
    \/ CommitFlat
    \/ GetNewHead
    \/ CheckoutMain
    \/ VerifyMainHead
    \/ HardReset
    \/ FinishFlatten
    \/ Tally

NextFlat ==
    \/ CompactorStep
    \/ WriterCommit

\* ----------------------------------------------------- dolt test server
\* startDoltServer and CleanupDoltServer of test processes that share one
\* port, its lock file and its PID file.  Every system call is one step.
\* flock locks belong to the open file, and an open file is an inode: a
\* process that opened the lock file before it was removed keeps locking
\* the removed inode, while the path, created again, names a new one.

Procs == {"p1", "p2", "p3"}
Servers == {1, 2, 3}          \* by process id, in the order started
Inodes == {1, 2}
NoInode == 0
NoServer == 0

\* A failed flock(LOCK_EX|LOCK_NB) on a file the caller holds LOCK_SH on:
\* Linux has removed the shared lock by then, the BSDs (darwin) keep it.
FlockKinds == {"dropped", "kept"}

TestsrvInit ==
    /\ tpc = [p \in Procs |-> "start"]
    /\ fd = [p \in Procs |-> NoInode]
    /\ flock = [p \in Procs |-> "none"]
    /\ lockPath = NoInode
    /\ pidFile = NoServer
    /\ srv = [s \in Servers |-> "unborn"]
    /\ dataDir = [s \in Servers |-> FALSE]
    /\ cmd = [p \in Procs |-> NoServer]
    /\ weStarted = [p \in Procs |-> FALSE]

\* portReady: something accepts connections on the port.
PortReady == \E s \in Servers : srv[s] = "listening"

\* The processes other than p that hold a lock on the file p has open.
Holders(p, modes) ==
    {q \in Procs \ {p} : fd[q] = fd[p] /\ flock[q] \in modes}

\* An inode that is neither named by the path nor open in any process.
FreeInodes == {i \in Inodes : i # lockPath /\ \A p \in Procs : fd[p] # i}

\* os.OpenFile(lockPath, O_CREATE|O_RDWR): opens the file the path names,
\* creating it when the path names none.
OpenLockFile(p) ==
    /\ tpc[p] = "start"
    /\ IF lockPath # NoInode
       THEN fd' = [fd EXCEPT ![p] = lockPath] /\ UNCHANGED lockPath
       ELSE /\ FreeInodes # {}
            /\ LET i == CHOOSE j \in FreeInodes : \A k \in FreeInodes : j <= k
               IN  fd' = [fd EXCEPT ![p] = i] /\ lockPath' = i
    /\ tpc' = [tpc EXCEPT ![p] = "lockex"]
    /\ UNCHANGED << flock, pidFile, srv, dataDir, cmd, weStarted, flockKind,
                    notTestsrv >>

\* flock(LOCK_EX), blocking: returns once no other process holds a lock on
\* the file.
LockExclusive(p) ==
    /\ tpc[p] = "lockex"
    /\ Holders(p, {"sh", "ex"}) = {}
    /\ flock' = [flock EXCEPT ![p] = "ex"]
    /\ tpc' = [tpc EXCEPT ![p] = "probe"]
    /\ UNCHANGED << fd, lockPath, pidFile, srv, dataDir, cmd, weStarted,
                    flockKind, notTestsrv >>

\* Under the exclusive lock: portReady(2s); a server that is there is
\* used, otherwise one is started.
ProbePort(p) ==
    /\ tpc[p] = "probe"
    /\ tpc' = [tpc EXCEPT ![p] = IF PortReady THEN "downgrade" ELSE "spawn"]
    /\ UNCHANGED << fd, flock, lockPath, pidFile, srv, dataDir, cmd, weStarted,
                    flockKind, notTestsrv >>

\* The servers not started yet; a new one is the first of them.
Unborn == {s \in Servers : srv[s] = "unborn"}

\* MkdirTemp, cmd.Start and the write of the PID file; when Start or the
\* write fails everything is undone and startDoltServer returns the error.
SpawnServer(p) ==
    /\ tpc[p] = "spawn"
    /\ Unborn # {}
    /\ LET s == CHOOSE t \in Unborn : \A u \in Unborn : t <= u
       IN  \E ok \in BOOLEAN :
            IF ok
            THEN /\ srv' = [srv EXCEPT ![s] = "starting"]
                 /\ dataDir' = [dataDir EXCEPT ![s] = TRUE]
                 /\ pidFile' = s
                 /\ cmd' = [cmd EXCEPT ![p] = s]
                 /\ tpc' = [tpc EXCEPT ![p] = "wait"]
                 /\ UNCHANGED << fd, flock >>
            ELSE /\ srv' = [srv EXCEPT ![s] = "dead"]
                 /\ flock' = [flock EXCEPT ![p] = "none"]
                 /\ fd' = [fd EXCEPT ![p] = NoInode]
                 /\ tpc' = [tpc EXCEPT ![p] = "failed"]
                 /\ UNCHANGED << dataDir, pidFile, cmd >>
    /\ UNCHANGED << lockPath, weStarted, flockKind, notTestsrv >>

\* The dolt sql-server process binds the port, or exits when the port is
\* taken.
ServerBinds(s) ==
    /\ srv[s] = "starting"
    /\ srv' = [srv EXCEPT ![s] = IF PortReady THEN "dead" ELSE "listening"]
    /\ UNCHANGED << tpc, fd, flock, lockPath, pidFile, dataDir, cmd, weStarted,
                    flockKind, notTestsrv >>

\* The wait loop: the port is ready (the lock is downgraded and
\* doltWeStarted set), or the started process has exited, or the 30 s are
\* over; in the last two cases the data dir and the PID file are removed,
\* the lock released and an error returned.
WaitReady(p) ==
    /\ tpc[p] = "wait"
    /\ IF PortReady
       THEN /\ tpc' = [tpc EXCEPT ![p] = "downgrade"]
            /\ weStarted' = [weStarted EXCEPT ![p] = TRUE]
            /\ UNCHANGED << fd, flock, pidFile, srv, dataDir >>
       ELSE /\ srv' = [srv EXCEPT ![cmd[p]] = "dead"]
            /\ dataDir' = [dataDir EXCEPT ![cmd[p]] = FALSE]
            /\ pidFile' = NoServer
            /\ flock' = [flock EXCEPT ![p] = "none"]
            /\ fd' = [fd EXCEPT ![p] = NoInode]
            /\ tpc' = [tpc EXCEPT ![p] = "failed"]
            /\ UNCHANGED weStarted
    /\ UNCHANGED << lockPath, cmd, flockKind, notTestsrv >>

\* flock(LOCK_SH) on a file held LOCK_EX: the exclusive lock is removed...
\* When the call returns an error the lock file is closed and the error
\* returned: nothing else is undone and doltWeStarted stays unset.
Downgrade(p) ==
    /\ tpc[p] = "downgrade"
    /\ \E err \in BOOLEAN :
        IF err
        THEN /\ flock' = [flock EXCEPT ![p] = "none"]
             /\ fd' = [fd EXCEPT ![p] = NoInode]
             /\ weStarted' = [weStarted EXCEPT ![p] = FALSE]
             /\ tpc' = [tpc EXCEPT ![p] = "failed"]
        ELSE /\ flock' = [flock EXCEPT ![p] = "none"]
             /\ tpc' = [tpc EXCEPT ![p] = "lockshared"]
             /\ UNCHANGED << fd, weStarted >>
    /\ UNCHANGED << lockPath, pidFile, srv, dataDir, cmd, flockKind, notTestsrv >>

\* ... and the shared lock established once no other process holds the
\* file exclusively.  startDoltServer returns nil: doltLockFile is set.
LockShared(p) ==
    /\ tpc[p] = "lockshared"
    /\ Holders(p, {"ex"}) = {}
    /\ flock' = [flock EXCEPT ![p] = "sh"]
    /\ tpc' = [tpc EXCEPT ![p] = "using"]
    /\ UNCHANGED << fd, lockPath, pidFile, srv, dataDir, cmd, weStarted,
                    flockKind, notTestsrv >>

\* CleanupDoltServer: flock(LOCK_EX|LOCK_NB).  It fails when another
\* process holds a lock on the file; the caller's shared lock is then
\* gone or still held, by platform.
TryExclusive(p) ==
    /\ tpc[p] = "using"
    /\ IF Holders(p, {"sh", "ex"}) = {}
       THEN /\ flock' = [flock EXCEPT ![p] = "ex"]
            /\ tpc' = [tpc EXCEPT ![p] = "kill"]
       ELSE /\ flock' = [flock EXCEPT ![p] =
                            IF flockKind = "dropped" THEN "none" ELSE "sh"]
            /\ tpc' = [tpc EXCEPT ![p] = "release"]
    /\ UNCHANGED << fd, lockPath, pidFile, srv, dataDir, cmd, weStarted,
                    flockKind, notTestsrv >>

\* Holding LOCK_EX: read the PID file; kill the server it names, remove
\* its data dir, the PID file and the lock file.  Without a PID file
\* nothing is done.
KillFromPidFile(p) ==
    /\ tpc[p] = "kill"
    /\ IF pidFile = NoServer
       THEN UNCHANGED << srv, dataDir, pidFile, lockPath >>
       ELSE /\ srv' = [srv EXCEPT ![pidFile] = "dead"]
            /\ dataDir' = [dataDir EXCEPT ![pidFile] = FALSE]
            /\ pidFile' = NoServer
            /\ lockPath' = NoInode
    /\ tpc' = [tpc EXCEPT ![p] = "release"]
    /\ UNCHANGED << fd, flock, cmd, weStarted, flockKind, notTestsrv >>

\* The deferred function: LOCK_UN and Close.
ReleaseLock(p) ==
    /\ tpc[p] = "release"
    /\ flock' = [flock EXCEPT ![p] = "none"]
    /\ fd' = [fd EXCEPT ![p] = NoInode]
    /\ tpc' = [tpc EXCEPT ![p] = "done"]
    /\ UNCHANGED << lockPath, pidFile, srv, dataDir, cmd, weStarted, flockKind,
                    notTestsrv >>

TestProcStep(p) ==
    \/ OpenLockFile(p)
    \/ LockExclusive(p)
    \/ ProbePort(p)
    \/ SpawnServer(p)
    \/ WaitReady(p)
    \/ Downgrade(p)
    \/ LockShared(p)
    \/ TryExclusive(p)
    \/ KillFromPidFile(p)
    \/ ReleaseLock(p)

NextTestsrv ==
    \/ \E p \in Procs : TestProcStep(p)
    \/ \E s \in Servers : ServerBinds(s)

\* ------------------------------------------------ reapStaleDoltServers
\* The reaper of stale test servers, computed on the text of
\* "ps -eo pid,etime,args".  A line is the sequence of its fragments: a
\* space, a digit or punctuation mark of the pid and etime columns, a word
\* or part of a word of the command.  Durations are in seconds.

Digit == << "0", "1", "2", "3", "4", "5", "6", "7", "8", "9" >>

IsDigit(c) == \E d \in 1..10 : Digit[d] = c

DigitValue(c) == (CHOOSE d \in 1..10 : Digit[d] = c) - 1

\* The decimal digits of a natural number, as ps and Sprintf print it.
RECURSIVE Decimal(_)
Decimal(n) ==
    IF n < 10 THEN << Digit[n + 1] >> ELSE Decimal(n \div 10) \o << Digit[(n % 10) + 1] >>

\* A number in two digits, as in the etime column.
TwoDigits(n) == IF n < 10 THEN << "0" >> \o Decimal(n) ELSE Decimal(n)

\* The etime column of ps: [[DD-]HH:]MM:SS.
Etime(secs) ==
    LET days == secs \div 86400
        hours == (secs % 86400) \div 3600
        mins == (secs % 3600) \div 60
        ss == secs % 60
    IN  (IF days > 0 THEN Decimal(days) \o << "-" >> ELSE << >>)
        \o (IF days > 0 \/ hours > 0 THEN TwoDigits(hours) \o << ":" >> ELSE << >>)
        \o TwoDigits(mins) \o << ":" >> \o TwoDigits(ss)

\* strings.Contains.
Contains(str, substr) ==
    \E k \in 1..(Len(str) - Len(substr) + 1) :
        SubSeq(str, k, k + Len(substr) - 1) = substr

\* strings.TrimSpace.
RECURSIVE TrimSpace(_)
TrimSpace(str) ==
    IF str = << >> THEN str
    ELSE IF Head(str) = " " THEN TrimSpace(Tail(str))
    ELSE IF str[Len(str)] = " " THEN TrimSpace(SubSeq(str, 1, Len(str) - 1))
    ELSE str

\* strings.Split for a one-fragment separator.
RECURSIVE Split(_, _)
Split(str, sep) ==
    IF Index(str, sep) = 0 THEN << str >>
    ELSE << SubSeq(str, 1, Index(str, sep) - 1) >>
            \o Split(SubSeq(str, Index(str, sep) + 1, Len(str)), sep)

\* strings.Fields: the maximal runs without a space.
Fields(str) == SelectSeq(Split(str, " "), LAMBDA f : f # << >>)

\* The value of a digit string, read left to right from acc.
RECURSIVE DigitsValue(_, _)
DigitsValue(str, acc) ==
    IF str = << >> \/ ~IsDigit(Head(str)) THEN acc
    ELSE DigitsValue(Tail(str), acc * 10 + DigitValue(Head(str)))

\* strconv.Atoi on an unsigned number: AtoiError when str is no number.
AtoiError == -1
Atoi(str) ==
    IF str # << >> /\ \A k \in 1..Len(str) : IsDigit(str[k])
    THEN DigitsValue(str, 0) ELSE AtoiError

\* fmt.Sscanf(str, "%d", &n) into n = 0: the leading digits, 0 without any.
Sscanf(str) == DigitsValue(str, 0)

\* parseElapsed: the etime column to a duration.
parseElapsed(str) ==
    LET dash == Index(str, "-")
        days == IF dash > 0 THEN Sscanf(SubSeq(str, 1, dash - 1)) ELSE 0
        rest == IF dash > 0 THEN SubSeq(str, dash + 1, Len(str)) ELSE str
        parts == Split(rest, ":")
    IN  days * 86400
        + (IF Len(parts) = 3
           THEN Sscanf(parts[1]) * 3600 + Sscanf(parts[2]) * 60 + Sscanf(parts[3])
           ELSE IF Len(parts) = 2 THEN Sscanf(parts[1]) * 60 + Sscanf(parts[2])
           ELSE 0)

\* The maxAge startDoltServer passes: 5 minutes.
ReapMaxAge == 300

\* The texts the reaper looks for.
DoltSqlServer == << "dolt", " ", "sql-server" >>
DoltTestServer == << "dolt-test-server" >>
Port3307 == << "--port", " ", "3307" >>

\* The command line of a dolt sql-server on a port with a data dir.
ServerArgs(port, dir) ==
    << "dolt", " ", "sql-server", " ", "--port", " " >> \o port
        \o << " ", "--data-dir", " " >> \o dir

TestDir == << "/tmp/", "dolt-test-server", "-4711" >>
ProdDir == << "/home/gt/", ".dolt-data" >>

\* A running process: what ps reports of it (elapsed in seconds), and
\* what it is: server says that the command line names dolt sql-server
\* and a dolt-test-server data dir, port is the text after "--port ".
Process(pid, elapsed, server, port, args) ==
    [pid |-> pid, elapsed |-> elapsed, server |-> server, port |-> port,
     args |-> args]

\* The processes a machine may run: test servers just under, at and over
\* the age limit, one of them days old; a test server on a port whose
\* digits begin with 3307; a server with a test data dir on port 3307; the
\* production server; an editor; a search for the servers' log lines.
ProcessPool ==
    { Process(11, 299, TRUE, << "13306" >>, ServerArgs(<< "13306" >>, TestDir)),
      Process(12, 300, TRUE, << "13307" >>, ServerArgs(<< "13307" >>, TestDir)),
      Process(13, 3600, TRUE, << "13308" >>, ServerArgs(<< "13308" >>, TestDir)),
      Process(14, 95445, TRUE, << "13309" >>, ServerArgs(<< "13309" >>, TestDir)),
      Process(15, 301, TRUE, << "3307", "1" >>,
              ServerArgs(<< "3307", "1" >>, TestDir)),
      Process(16, 302400, TRUE, << "3307" >>, ServerArgs(<< "3307" >>, TestDir)),
      Process(17, 302400, FALSE, << "3307" >>, ServerArgs(<< "3307" >>, ProdDir)),
      Process(18, 600, FALSE, << >>, << "vim", " ", "notes.txt" >>),
      Process(19, 600, TRUE, << >>,
              << "grep", " ", "dolt", " ", "sql-server", " " >> \o TestDir
                  \o << ".log" >>) }

Pids == {p.pid : p \in ProcessPool}

\* At most this many processes of the pool run at once.
MaxProcs == 2

\* A line of the ps output: the pid right-aligned, the etime, the command.
PsLine(p) ==
    << " ", " " >> \o Decimal(p.pid) \o << " ", " ", " " >> \o Etime(p.elapsed)
        \o << " " >> \o p.args

PsHeader == << " ", " ", "PID", " ", "ELAPSED", " ", "COMMAND" >>

\* The ps output for a set of processes, by pid.
RECURSIVE PsLines(_)
PsLines(procs) ==
    IF procs = {} THEN << >>
    ELSE LET p == CHOOSE q \in procs : \A r \in procs : q.pid <= r.pid
         IN  << PsLine(p) >> \o PsLines(procs \ {p})

PsOutput(procs) == << PsHeader >> \o PsLines(procs) \o << << >> >>

\* Mutant of ShouldKill: the production port is not looked at.
ShouldKillAnyPort(text, maxAge) ==
    LET line == TrimSpace(text)
        fields == Fields(line)
    IN  /\ Contains(line, DoltSqlServer)
        /\ Contains(line, DoltTestServer)
        /\ Len(fields) >= 2
        /\ Atoi(fields[1]) > 0
        /\ parseElapsed(fields[2]) >= maxAge

\* The loop body of reapStaleDoltServers: whether a line's process is
\* killed.
ShouldKill(text, maxAge) ==
    LET line == TrimSpace(text)
        fields == Fields(line)
    IN  /\ Contains(line, DoltSqlServer)
        /\ Contains(line, DoltTestServer)
        /\ ~Contains(line, Port3307)
        /\ Len(fields) >= 2
        /\ Atoi(fields[1]) > 0
        /\ parseElapsed(fields[2]) >= maxAge

\* The pids reapStaleDoltServers kills, given the ps output.
Killed(out, maxAge) ==
    {Atoi(Fields(TrimSpace(out[k]))[1]) :
        k \in {j \in 1..Len(out) : ShouldKill(out[j], maxAge)}}

NotRun == {-1}

\* A PID file: the port in its name, whether it can be read, its content
\* (the pid, a newline, the data dir, a newline) and the number its first
\* line holds, CorruptPid when it holds none.
CorruptPid == 0
PidFile(port, pid, readable, data) ==
    [port |-> port, pid |-> pid, readable |-> readable, data |-> data]

\* The PID files of the temp dir: of three servers of the pool, one of
\* them with blanks around the pid; of a process that is gone, without a
\* newline; with a word for the pid; empty; of blanks only; and one of a
\* running server that cannot be read.
PidFilePool ==
    { PidFile("13306", 11, TRUE, Decimal(11) \o << "\n" >> \o TestDir \o << "\n" >>),
      PidFile("13307", 12, TRUE,
              << " " >> \o Decimal(12) \o << " ", "\n" >> \o TestDir \o << "\n" >>),
      PidFile("3307", 17, TRUE, Decimal(17) \o << "\n" >> \o ProdDir \o << "\n" >>),
      PidFile("9", 99, TRUE, Decimal(99)),
      PidFile("8", CorruptPid, TRUE, << "not-a-number", "\n" >> \o TestDir \o << "\n" >>),
      PidFile("7", CorruptPid, TRUE, << >>),
      PidFile("6", CorruptPid, TRUE, << " ", " ", " ", "\n", "\n" >>),
      PidFile("5", 17, FALSE, Decimal(17) \o << "\n" >> \o ProdDir \o << "\n" >>) }

\* The PID file of a port.
PidFileOf(port) == CHOOSE f \in PidFilePool : f.port = port

ReapInit ==
    /\ procTable = {}
    /\ pidFiles = {f.port : f \in PidFilePool}
    /\ lockFiles = pidFiles
    /\ killedPIDs = NotRun

\* isProcessRunning.
IsProcessRunning(pid, procs) == \E p \in procs : p.pid = pid

\* strings.SplitN(str, sep, 2): the text before the first separator and
\* the text after it, or the whole text.
SplitN(str, sep) ==
    IF Index(str, sep) = 0 THEN << str >>
    ELSE << SubSeq(str, 1, Index(str, sep) - 1),
            SubSeq(str, Index(str, sep) + 1, Len(str)) >>

\* Mutant of Removal: the killed set is not looked at.
RemovalOfDeadOnly(f, killed, procs) ==
    IF ~f.readable THEN "pid"
    ELSE LET lines == SplitN(f.data, "\n")
             pid == Atoi(TrimSpace(lines[1]))
         IN  IF Len(lines) = 0 \/ pid = AtoiError THEN "pid"
             ELSE IF ~IsProcessRunning(pid, procs) THEN "both"
             ELSE "keep"

\* The loop body of cleanupStalePIDFiles: what is removed for a PID file,
\* the PID file alone ("pid"), the PID file and the lock file ("both") or
\* nothing ("keep").
Removal(f, killed, procs) ==
    IF ~f.readable THEN "pid"
    ELSE LET lines == SplitN(f.data, "\n")
             pid == Atoi(TrimSpace(lines[1]))
         IN  IF Len(lines) = 0 \/ pid = AtoiError THEN "pid"
             ELSE IF pid \in killed \/ ~IsProcessRunning(pid, procs) THEN "both"
             ELSE "keep"

\* The PID files removed with their lock files.
StalePidFiles(killed, procs) ==
    {port \in pidFiles : Removal(PidFileOf(port), killed, procs) = "both"}

\* cleanupStalePIDFiles(killedPIDs), next to the processes procs.
cleanupStalePIDFiles(killed, procs) ==
    /\ pidFiles' = {port \in pidFiles :
                        Removal(PidFileOf(port), killed, procs) = "keep"}
    /\ lockFiles' = lockFiles \ StalePidFiles(killed, procs)

\* The run of reapStaleDoltServers once ps has answered: the kills, then
\* cleanupStalePIDFiles.
Reap(maxAge) ==
    LET kill == Killed(PsOutput(procTable), maxAge)
        left == {p \in procTable : p.pid \notin kill}
    IN  /\ killedPIDs' = kill
        /\ procTable' = left
        /\ cleanupStalePIDFiles(kill, left)

\* reapStaleDoltServers(maxAge); when ps fails nothing is done.
reapStaleDoltServers(maxAge) ==
    /\ \E ok \in BOOLEAN : IF ok THEN Reap(maxAge) ELSE UNCHANGED reap
    /\ UNCHANGED notReap

\* The killed sets handed to cleanupStalePIDFiles: none, a process that is
\* gone or was never there, processes that may still be running.
KilledSets == {{}, {99}, {11, 17}}

\* cleanupStalePIDFiles called by itself, as the tests call it.
CleanupCalled(killed) ==
    /\ cleanupStalePIDFiles(killed, procTable)
    /\ killedPIDs' = killed
    /\ UNCHANGED << procTable, notReap >>

\* A process of the pool is started, or one exits.
ProcessStarts(p) ==
    /\ p \notin procTable
    /\ Cardinality(procTable) < MaxProcs
    /\ procTable' = procTable \cup {p}
    /\ UNCHANGED << pidFiles, lockFiles, killedPIDs, notReap >>

ProcessExits(p) ==
    /\ p \in procTable
    /\ procTable' = procTable \ {p}
    /\ UNCHANGED << pidFiles, lockFiles, killedPIDs, notReap >>

NextReap ==
    \/ reapStaleDoltServers(ReapMaxAge)
    \/ \E killed \in KilledSets : CleanupCalled(killed)
    \/ \E p \in ProcessPool : ProcessStarts(p)
    \/ \E p \in ProcessPool : ProcessExits(p)

\* ------------------------------------------------------ EnsurePluginAt
\* The OpenCode plugin installer, on the files of one work dir.  A path is
\* the sequence of its components; the empty sequence is the empty string.

WorkDir == << "rig" >>

\* The plugin dirs and files a caller passes.
PluginDirs == { << >>, << ".opencode", "plugin" >>, << "plugins" >> }
PluginFiles == { << >>, << "gastown.js" >> }

\* filepath.Join and filepath.Dir.
Join(a, b) == a \o b
Dir(path) == IF path = << >> THEN << >> ELSE SubSeq(path, 1, Len(path) - 1)

\* The paths EnsurePluginAt computes.
PluginPath(workDir, pluginDir, pluginFile) ==
    Join(Join(workDir, pluginDir), pluginFile)

PackageJsonPath(workDir, pluginDir) ==
    Join(Join(workDir, Dir(pluginDir)), << "package.json" >>)

FilePaths ==
    {PluginPath(WorkDir, d, f) : d \in PluginDirs \ {<< >>}, f \in PluginFiles \ {<< >>}}
        \cup {PackageJsonPath(WorkDir, d) : d \in PluginDirs \ {<< >>}}

\* What a file holds: the embedded plugin/gastown.js, the embedded
\* plugin/package.json, something the user wrote, or the empty file a
\* failed write leaves.
Absent == "absent"
GastownJs == "plugin/gastown.js"
PackageJson == "plugin/package.json"
Contents == {Absent, GastownJs, PackageJson, "user", "empty"}

NoCall == [dir |-> << >>, file |-> << >>, res |-> "none"]

PluginInit ==
    /\ files = [p \in FilePaths |-> Absent]
    /\ dirs = {WorkDir}
    /\ ensured = NoCall

\* os.MkdirAll: the path and every directory above it.
MkdirAll(path) == dirs \cup {SubSeq(path, 1, k) : k \in 1..Len(path)}

\* Mutant of Exists: the plugin is never found.
ExistsNever(path) == FALSE

\* os.Stat(path) returns no error.
Exists(path) == files[path] # Absent

\* What a failed os.WriteFile leaves: nothing if the file was not opened,
\* a truncated file if the write after it failed.
FailedWrite(path) == {files, [files EXCEPT ![path] = "empty"]}

\* EnsurePluginAt(workDir, pluginDir, pluginFile).  fail names the call
\* that returns an error, if any.
EnsurePluginAt(workDir, pluginDir, pluginFile) ==
    LET pluginPath == PluginPath(workDir, pluginDir, pluginFile)
        packageJsonPath == PackageJsonPath(workDir, pluginDir)
        Returns(res) ==
            ensured' = [dir |-> pluginDir, file |-> pluginFile, res |-> res]
    IN  /\ IF pluginDir = << >> \/ pluginFile = << >>
           THEN Returns("nil") /\ UNCHANGED << files, dirs >>
           ELSE IF Exists(pluginPath)
           THEN Returns("nil") /\ UNCHANGED << files, dirs >>
           ELSE \E fail \in {"none", "MkdirAll", "WriteFile", "Stat", "WriteFile2"} :
                CASE fail = "MkdirAll" ->
                        /\ Returns("creating plugin directory")
                        /\ UNCHANGED << files, dirs >>
                  [] fail = "WriteFile" ->
                        /\ Returns("writing plugin")
                        /\ dirs' = MkdirAll(Dir(pluginPath))
                        /\ files' \in FailedWrite(pluginPath)
                  [] fail = "Stat" ->
                        /\ Returns("nil")
                        /\ dirs' = MkdirAll(Dir(pluginPath))
                        /\ files' = [files EXCEPT ![pluginPath] = GastownJs]
                  [] fail = "WriteFile2" ->
                        /\ ~Exists(packageJsonPath)
                        /\ Returns("writing plugin package.json")
                        /\ dirs' = MkdirAll(Dir(pluginPath))
                        /\ files' \in
                            {[f EXCEPT ![pluginPath] = GastownJs] :
                                f \in FailedWrite(packageJsonPath)}
                  [] fail = "none" ->
                        /\ Returns("nil")
                        /\ dirs' = MkdirAll(Dir(pluginPath))
                        /\ files' =
                            [files EXCEPT
                                ![pluginPath] = GastownJs,
                                ![packageJsonPath] =
                                    IF Exists(packageJsonPath) THEN @
                                    ELSE PackageJson]
        /\ UNCHANGED notPlugin

\* The user writes a file of their own, or removes one.
UserWrites(path) ==
    /\ files[path] # "user"
    /\ files' = [files EXCEPT ![path] = "user"]
    /\ dirs' = MkdirAll(Dir(path))
    /\ UNCHANGED << ensured, notPlugin >>

UserRemoves(path) ==
    /\ files[path] # Absent
    /\ files' = [files EXCEPT ![path] = Absent]
    /\ UNCHANGED << dirs, ensured, notPlugin >>

NextEnsure ==
    \/ \E d \in PluginDirs, f \in PluginFiles : EnsurePluginAt(WorkDir, d, f)
    \/ \E path \in FilePaths : UserWrites(path)
    \/ \E path \in FilePaths : UserRemoves(path)

\* --------------------------------------------------- OpenCode plugin
\* gastown.js: the event hook of the GasTown plugin.  An event handler
\* runs until its first await; what it awaits is resumed later, in any
\* order with the handlers of later events.  A call of
\* injectGasTownContext is recorded when it is made.

MaxEvents == 3          \* events the host delivers

SessionIds == {"s1", "s2"}

\* A property that is undefined (or an empty string): falsy.
NoId == ""

EventTypes == {"session.created", "session.compacted", "session.deleted",
               "message.updated"}

\* An event: its type, properties.info.id and properties.sessionID.
Event(type, info, sessionID) ==
    [kind |-> "event", type |-> type, info |-> info, sessionID |-> sessionID]

\* The session ids a property can hold.
MaybeIds == SessionIds \cup {NoId}

\* The events of the host.  A session.created or session.deleted event
\* names its session in properties.info.id or in properties.sessionID or
\* not at all, a session.compacted event in properties.sessionID or not
\* at all.
Events ==
    {e \in {Event(t, i, s) : t \in {"session.created", "session.deleted"},
                             i \in MaybeIds, s \in MaybeIds} :
        e.info = NoId \/ e.sessionID = NoId}
    \cup {Event("session.compacted", NoId, s) : s \in MaybeIds}
    \cup {Event("message.updated", NoId, NoId)}

\* A call of injectGasTownContext(sessionID, context) made by the handler
\* of an event of type cause.
Call(sessionID, cause) ==
    [kind |-> "call", type |-> cause, info |-> NoId, sessionID |-> sessionID]

GasTownInit ==
    /\ injectedSessions = {}
    /\ awaits = << >>
    /\ log = << >>

\* event.properties?.info?.id || event.properties?.sessionID
CreatedSessionID(event) ==
    IF event.info # NoId THEN event.info ELSE event.sessionID

\* Mutant of SessionCreated: the has() test is dropped.
SessionCreatedAgain(event) ==
    LET sessionID == CreatedSessionID(event)
    IN  IF sessionID # NoId
        THEN /\ injectedSessions' = injectedSessions \cup {sessionID}
             /\ log' = log \o << event, Call(sessionID, event.type) >>
             /\ UNCHANGED awaits
        ELSE /\ log' = Append(log, event)
             /\ UNCHANGED << injectedSessions, awaits >>

\* session.created: a session id not in the set is added and
\* injectGasTownContext called for it.
SessionCreated(event) ==
    LET sessionID == CreatedSessionID(event)
    IN  IF sessionID # NoId /\ sessionID \notin injectedSessions
        THEN /\ injectedSessions' = injectedSessions \cup {sessionID}
             /\ log' = log \o << event, Call(sessionID, event.type) >>
             /\ UNCHANGED awaits
        ELSE /\ log' = Append(log, event)
             /\ UNCHANGED << injectedSessions, awaits >>

\* session.compacted: getSessionContext(event.properties.sessionID) is
\* awaited, then injectGasTownContext called.
SessionCompacted(event) ==
    /\ log' = Append(log, event)
    /\ awaits' = Append(awaits, event.sessionID)
    /\ UNCHANGED injectedSessions

\* session.deleted: injectedSessions.delete(event.properties?.info?.id)
SessionDeleted(event) ==
    /\ injectedSessions' = injectedSessions \ {event.info}
    /\ log' = Append(log, event)
    /\ UNCHANGED awaits

\* The events delivered so far.
Delivered == SelectSeq(log, LAMBDA x : x.kind = "event")

\* The host delivers an event to the hook.
Deliver(event) ==
    /\ Len(Delivered) < MaxEvents
    /\ CASE event.type = "session.created" -> SessionCreated(event)
         [] event.type = "session.compacted" -> SessionCompacted(event)
         [] event.type = "session.deleted" -> SessionDeleted(event)
         [] OTHER -> /\ log' = Append(log, event)
                     /\ UNCHANGED << injectedSessions, awaits >>
    /\ UNCHANGED notGastown

\* The sequence without its i-th element.
Without(seq, i) == SubSeq(seq, 1, i - 1) \o SubSeq(seq, i + 1, Len(seq))

\* The promise of the i-th getSessionContext call settles: the handler
\* of the session.compacted event goes on and calls injectGasTownContext.
Resume(i) ==
    /\ i \in 1..Len(awaits)
    /\ awaits' = Without(awaits, i)
    /\ log' = Append(log, Call(awaits[i], "session.compacted"))
    /\ UNCHANGED << injectedSessions, notGastown >>

NextGasTown ==
    \/ \E event \in Events : Deliver(event)
    \/ \E i \in 1..MaxEvents : Resume(i)

\* ---------------------------------------------------------------- Init
\* The scheduler side of the initial state: every dog idle, every daemon
\* between cycles.
SchedInit ==
    /\ dogState = [g \in Dogs |-> StateIdle]
    /\ dogWork = [g \in Dogs |-> ""]
    /\ session = [g \in Dogs |-> FALSE]
    /\ runHistory \in SUBSET {<<"cool", 0>>}
    /\ pc = [d \in Daemons |-> "idle"]
    /\ dogs = [d \in Daemons |-> NoDogs]
    /\ idx = [d \in Daemons |-> 0]
    /\ pidx = [d \in Daemons |-> 0]
    /\ idleDog = [d \in Daemons |-> NoDog]
    /\ lastOp = Op("", "none", 0, "ok")
    /\ lastStart = [n \in TimedNames |-> -1]
    /\ stranded = {}
    /\ fresh = {}

InitOn(kinds) ==
    /\ SchedInit
    /\ now = 0
    /\ MailInit
    /\ PendInit
    /\ FlatInit
    /\ TestsrvInit
    /\ flockKind \in kinds
    /\ cycle = NotKept
    /\ ReapInit
    /\ PluginInit
    /\ GasTownInit

\* The state after construction, on Linux.
Init == InitOn({"dropped"})

\* ---------------------------------------------------------- handleDogs
\* loadRigsConfig, then the two passes.
HandleDogs(d) ==
    /\ pc[d] = "idle"
    /\ \E ok \in BOOLEAN :
        /\ lastOp' = Op(d, "loadRigsConfig", 0, Result(ok))
        /\ pc' = [pc EXCEPT ![d] = IF ok THEN "list" ELSE "idle"]
        /\ fresh' = IF ok /\ stranded # {} THEN fresh \cup {d} ELSE fresh
    /\ UNCHANGED << shared, dogs, idx, pidx, idleDog, lastStart, stranded >>
    /\ Track(d)
    /\ UNCHANGED notSched

\* Mutant of CleanupList: the range over dogs misses the first dog.
CleanupListSkipFirst(d) ==
    /\ pc[d] = "list"
    /\ \E ok \in BOOLEAN :
        /\ lastOp' = Op(d, "List", 0, Result(ok))
        /\ IF ok
           THEN RangeDogs(d, 2, dogState)
           ELSE /\ pc' = [pc EXCEPT ![d] = "discover"]
                /\ UNCHANGED << dogs, idx >>
    /\ UNCHANGED << shared, pidx, idleDog, lastStart, stranded, fresh >>
    /\ Track(d)
    /\ UNCHANGED notSched

\* Mutant of CleanupList: a failed List ends the cycle.
CleanupListAbort(d) ==
    /\ pc[d] = "list"
    /\ \E ok \in BOOLEAN :
        /\ lastOp' = Op(d, "List", 0, Result(ok))
        /\ IF ok
           THEN RangeDogs(d, 1, dogState)
           ELSE /\ pc' = [pc EXCEPT ![d] = "idle"]
                /\ UNCHANGED << dogs, idx >>
    /\ UNCHANGED << shared, pidx, idleDog, lastStart, stranded, fresh >>
    /\ Track(d)
    /\ UNCHANGED notSched

\* ----------------------------------------------------- cleanupStuckDogs
\* dogs, err := mgr.List(), and the range over dogs up to the first probe.
CleanupList(d) ==
    /\ pc[d] = "list"
    /\ \E ok \in BOOLEAN :
        /\ lastOp' = Op(d, "List", 0, Result(ok))
        /\ IF ok
           THEN RangeDogs(d, 1, dogState)
           ELSE /\ pc' = [pc EXCEPT ![d] = "discover"]
                /\ UNCHANGED << dogs, idx >>
    /\ UNCHANGED << shared, pidx, idleDog, lastStart, stranded, fresh >>
    /\ Track(d)
    /\ UNCHANGED notSched

\* Mutant of CleanupProbe: a dead session is logged but the work is not
\* cleared.
CleanupProbeNoClear(d) ==
    /\ pc[d] = "probe"
    /\ LET g == idx[d] IN
       \E res \in {"err", "running", "dead"} :
        /\ res = "running" => session[g]
        /\ res = "dead" => ~session[g]
        /\ lastOp' = Op(d, "IsRunning", g, res)
        /\ NextDog(d)
    /\ UNCHANGED << shared, pidx, idleDog, lastStart, stranded, fresh >>
    /\ Track(d)
    /\ UNCHANGED notSched

\* Mutant of CleanupProbe: the error of IsRunning is dropped, so a failed
\* probe reads as "not running".
CleanupProbeErrAsDead(d) ==
    /\ pc[d] = "probe"
    /\ LET g == idx[d] IN
       \E res \in {"err", "running", "dead"} :
        /\ res = "running" => session[g]
        /\ res = "dead" => ~session[g]
        /\ lastOp' = Op(d, "IsRunning", g, res)
        /\ IF res \in {"dead", "err"}
           THEN /\ pc' = [pc EXCEPT ![d] = "clear"]
                /\ UNCHANGED << idx, dogs >>
           ELSE NextDog(d)
    /\ UNCHANGED << shared, pidx, idleDog, lastStart, stranded, fresh >>
    /\ Track(d)
    /\ UNCHANGED notSched

\* running, err := sm.IsRunning(dg.Name) for a dog listed as working.
CleanupProbe(d) ==
    /\ pc[d] = "probe"
    /\ LET g == idx[d] IN
       \E res \in {"err", "running", "dead"} :
        /\ res = "running" => session[g]
        /\ res = "dead" => ~session[g]
        /\ lastOp' = Op(d, "IsRunning", g, res)
        /\ IF res = "dead"
           THEN /\ pc' = [pc EXCEPT ![d] = "clear"]
                /\ UNCHANGED << idx, dogs >>
           ELSE NextDog(d)
    /\ UNCHANGED << shared, pidx, idleDog, lastStart, stranded, fresh >>
    /\ Track(d)
    /\ UNCHANGED notSched

\* Mutant of CleanupClear: clearing a dog that is no longer working is
\* reported as an error.
CleanupClearOnlyWorking(d) ==
    /\ pc[d] = "clear"
    /\ LET g == idx[d] IN
       \E ok \in BOOLEAN :
        /\ ok => dogState[g] = StateWorking
        /\ lastOp' = Op(d, "ClearWork", g, Result(ok))
        /\ IF ok THEN ClearWork(g) ELSE UNCHANGED << dogState, dogWork >>
        /\ stranded' = IF ok THEN stranded \ {g} ELSE stranded
    /\ NextDog(d)
    /\ UNCHANGED << session, now, runHistory, pidx, idleDog, lastStart, fresh >>
    /\ Track(d)
    /\ UNCHANGED notSched

\* Dog is marked working but session is dead: mgr.ClearWork(dg.Name).
CleanupClear(d) ==
    /\ pc[d] = "clear"
    /\ LET g == idx[d] IN
       \E ok \in BOOLEAN :
        /\ lastOp' = Op(d, "ClearWork", g, Result(ok))
        /\ IF ok THEN ClearWork(g) ELSE UNCHANGED << dogState, dogWork >>
        /\ stranded' = IF ok THEN stranded \ {g} ELSE stranded
    /\ NextDog(d)
    /\ UNCHANGED << session, now, runHistory, pidx, idleDog, lastStart, fresh >>
    /\ Track(d)
    /\ UNCHANGED notSched

\* ------------------------------------------------------ dispatchPlugins
\* plugins, err := scanner.DiscoverAll(), and the range over plugins up to
\* the first gated one.
Discover(d) ==
    /\ pc[d] = "discover"
    /\ \E ok \in BOOLEAN :
        /\ lastOp' = Op(d, "DiscoverAll", 0, Result(ok))
        /\ IF ok /\ Len(Plugins) # 0
           THEN RangePlugins(d, 1)
           ELSE EndCycle(d)
    /\ UNCHANGED << shared, dogs, idx, lastStart, stranded, fresh >>
    /\ Track(d)
    /\ UNCHANGED notSched

\* Mutant of Gate: an error of CountRunsSince returns from dispatchPlugins.
GateAbortOnError(d) ==
    /\ pc[d] = "gate"
    /\ LET p == Plugins[pidx[d]] IN
       \E ok \in BOOLEAN :
        /\ ok => DurationValid(p.duration)
        /\ lastOp' = Op(d, "CountRunsSince", pidx[d], Result(ok))
        /\ IF ~ok
           THEN EndCycle(d)
           ELSE IF InCooldown(CountRunsSince(p.name, p.duration))
           THEN NextPlugin(d)
           ELSE /\ pc' = [pc EXCEPT ![d] = "getidle"]
                /\ UNCHANGED << pidx, idleDog >>
    /\ UNCHANGED << shared, dogs, idx, lastStart, stranded, fresh >>
    /\ Track(d)
    /\ UNCHANGED notSched

\* Mutant of Gate: an error of CountRunsSince is retried for the same
\* plugin.
GateRetryOnError(d) ==
    /\ pc[d] = "gate"
    /\ LET p == Plugins[pidx[d]] IN
       \E ok \in BOOLEAN :
        /\ ok => DurationValid(p.duration)
        /\ lastOp' = Op(d, "CountRunsSince", pidx[d], Result(ok))
        /\ IF ~ok
           THEN UNCHANGED << pc, pidx, idleDog >>
           ELSE IF InCooldown(CountRunsSince(p.name, p.duration))
           THEN NextPlugin(d)
           ELSE /\ pc' = [pc EXCEPT ![d] = "getidle"]
                /\ UNCHANGED << pidx, idleDog >>
    /\ UNCHANGED << shared, dogs, idx, lastStart, stranded, fresh >>
    /\ Track(d)
    /\ UNCHANGED notSched

\* count, err := recorder.CountRunsSince(p.Name, p.Gate.Duration)
Gate(d) ==
    /\ pc[d] = "gate"
    /\ LET p == Plugins[pidx[d]] IN
       \E ok \in BOOLEAN :
        /\ ok => DurationValid(p.duration)
        /\ lastOp' = Op(d, "CountRunsSince", pidx[d], Result(ok))
        /\ IF ~ok \/ InCooldown(CountRunsSince(p.name, p.duration))
           THEN NextPlugin(d)
           ELSE /\ pc' = [pc EXCEPT ![d] = "getidle"]
                /\ UNCHANGED << pidx, idleDog >>
    /\ UNCHANGED << shared, dogs, idx, lastStart, stranded, fresh >>
    /\ Track(d)
    /\ UNCHANGED notSched

\* Mutant of FindIdleDog: with no idle dog the iteration continues with the
\* next plugin instead of returning.
FindIdleDogContinue(d) ==
    /\ pc[d] = "getidle"
    /\ \E ok \in BOOLEAN :
        LET g == GetIdleDog IN
        /\ lastOp' = Op(d, "GetIdleDog", pidx[d], IF ~ok THEN "err" ELSE IF g = NoDog THEN "nil" ELSE "ok")
        /\ IF ~ok
           THEN EndCycle(d)
           ELSE IF g = NoDog
           THEN NextPlugin(d)
           ELSE /\ idleDog' = [idleDog EXCEPT ![d] = g]
                /\ pc' = [pc EXCEPT ![d] = "assign"]
                /\ UNCHANGED pidx
    /\ UNCHANGED << shared, dogs, idx, lastStart, stranded, fresh >>
    /\ Track(d)
    /\ UNCHANGED notSched

\* idleDog, err := mgr.GetIdleDog()
FindIdleDog(d) ==
    /\ pc[d] = "getidle"
    /\ \E ok \in BOOLEAN :
        LET g == GetIdleDog IN
        /\ lastOp' = Op(d, "GetIdleDog", pidx[d], IF ~ok THEN "err" ELSE IF g = NoDog THEN "nil" ELSE "ok")
        /\ IF ~ok \/ g = NoDog
           THEN EndCycle(d)
           ELSE /\ idleDog' = [idleDog EXCEPT ![d] = g]
                /\ pc' = [pc EXCEPT ![d] = "assign"]
                /\ UNCHANGED pidx
    /\ UNCHANGED << shared, dogs, idx, lastStart, stranded, fresh >>
    /\ Track(d)
    /\ UNCHANGED notSched

\* Mutant of Assign: the error of AssignWork is logged but the iteration
\* goes on to sm.Start (the continue is missing).
AssignIgnoringError(d) ==
    /\ pc[d] = "assign"
    /\ LET g == idleDog[d]
           p == Plugins[pidx[d]] IN
       \E ok \in BOOLEAN :
        /\ ok => AssignWorkAllowed(g)
        /\ lastOp' = Op(d, "AssignWork", g, Result(ok))
        /\ IF ok THEN AssignWork(g, WorkDesc(p)) ELSE UNCHANGED << dogState, dogWork >>
        /\ pc' = [pc EXCEPT ![d] = "start"]
        /\ UNCHANGED << pidx, idleDog >>
    /\ UNCHANGED << session, now, runHistory, dogs, idx, lastStart, stranded, fresh >>
    /\ Track(d)
    /\ UNCHANGED notSched

\* Mutant of Assign: the session is started whether or not AssignWork
\* succeeded.
AssignUnchecked(d) ==
    /\ pc[d] = "assign"
    /\ LET g == idleDog[d]
           p == Plugins[pidx[d]] IN
       \E ok \in BOOLEAN :
        /\ ok => AssignWorkAllowed(g)
        /\ lastOp' = Op(d, "AssignWork", g, Result(ok))
        /\ IF ok
           THEN AssignWork(g, WorkDesc(p))
           ELSE UNCHANGED << dogState, dogWork >>
        /\ pc' = [pc EXCEPT ![d] = "start"]
        /\ UNCHANGED << pidx, idleDog >>
    /\ UNCHANGED << session, now, runHistory, dogs, idx, lastStart, stranded, fresh >>
    /\ Track(d)
    /\ UNCHANGED notSched

\* mgr.AssignWork(idleDog.Name, workDesc)
Assign(d) ==
    /\ pc[d] = "assign"
    /\ LET g == idleDog[d]
           p == Plugins[pidx[d]] IN
       \E ok \in BOOLEAN :
        /\ ok => AssignWorkAllowed(g)
        /\ lastOp' = Op(d, "AssignWork", g, Result(ok))
        /\ IF ok
           THEN /\ AssignWork(g, WorkDesc(p))
                /\ pc' = [pc EXCEPT ![d] = "start"]
                /\ UNCHANGED << pidx, idleDog >>
           ELSE /\ NextPlugin(d)
                /\ UNCHANGED << dogState, dogWork >>
    /\ UNCHANGED << session, now, runHistory, dogs, idx, lastStart, stranded, fresh >>
    /\ Track(d)
    /\ UNCHANGED notSched

\* sm.Start(idleDog.Name, ...): fails when the session already exists, and
\* may fail for any other reason.
Start(d) ==
    /\ pc[d] = "start"
    /\ LET g == idleDog[d]
           p == Plugins[pidx[d]] IN
       \E ok \in BOOLEAN :
        /\ ok => ~session[g]
        /\ lastOp' = Op(d, "Start", g, Result(ok))
        /\ IF ok
           THEN /\ session' = [session EXCEPT ![g] = TRUE]
                /\ lastStart' = [n \in TimedNames |-> IF n = p.name THEN now ELSE lastStart[n]]
                /\ pc' = [pc EXCEPT ![d] = "send"]
           ELSE /\ pc' = [pc EXCEPT ![d] = "rollback"]
                /\ UNCHANGED << session, lastStart >>
    /\ UNCHANGED << dogState, dogWork, now, runHistory, dogs, idx, pidx, idleDog,
                    stranded, fresh >>
    /\ Track(d)
    /\ UNCHANGED notSched

\* Mutant of Rollback: the assignment is not rolled back.
RollbackSkipped(d) ==
    /\ pc[d] = "rollback"
    /\ NextPlugin(d)
    /\ UNCHANGED << shared, dogs, idx, lastOp, lastStart, stranded, fresh >>
    /\ Track(d)
    /\ UNCHANGED notSched

\* Roll back assignment on session start failure: mgr.ClearWork.
Rollback(d) ==
    /\ pc[d] = "rollback"
    /\ LET g == idleDog[d] IN
       \E ok \in BOOLEAN :
        /\ lastOp' = Op(d, "ClearWork", g, Result(ok))
        /\ IF ok THEN ClearWork(g) ELSE UNCHANGED << dogState, dogWork >>
        /\ stranded' = IF ok THEN stranded \ {g} ELSE stranded
    /\ NextPlugin(d)
    /\ UNCHANGED << session, now, runHistory, dogs, idx, lastStart, fresh >>
    /\ Track(d)
    /\ UNCHANGED notSched

\* Mutant of Send: a failed send is rolled back like a failed start.
SendRollbackOnError(d) ==
    /\ pc[d] = "send"
    /\ \E ok \in BOOLEAN :
        /\ lastOp' = Op(d, "Send", idleDog[d], Result(ok))
        /\ IF ok
           THEN NextPlugin(d)
           ELSE /\ pc' = [pc EXCEPT ![d] = "rollback"]
                /\ UNCHANGED << pidx, idleDog >>
    /\ UNCHANGED << dogState, dogWork, session, now, runHistory, dogs, idx, lastStart, stranded, fresh >>
    /\ Track(d)
    /\ UNCHANGED notSched

\* Mutant of Send: after the mail the same plugin is taken again.
SendRepeats(d) ==
    /\ pc[d] = "send"
    /\ \E ok \in BOOLEAN : lastOp' = Op(d, "Send", idleDog[d], Result(ok))
    /\ RangePlugins(d, pidx[d])
    /\ UNCHANGED << dogState, dogWork, session, now, runHistory, dogs, idx, lastStart, stranded, fresh >>
    /\ Track(d)
    /\ UNCHANGED notSched

\* router.Send(msg); the iteration ends with the "dispatched" log line.
Send(d) ==
    /\ pc[d] = "send"
    /\ \E ok \in BOOLEAN : lastOp' = Op(d, "Send", idleDog[d], Result(ok))
    /\ NextPlugin(d)
    /\ UNCHANGED << dogState, dogWork, session, now, runHistory, dogs, idx, lastStart, stranded, fresh >>
    /\ Track(d)
    /\ UNCHANGED notSched

\* What handleDogs hands back to the heartbeat: the function has no result,
\* every outcome goes to the log only.
NoReport == "none"

CycleReport(d) == NoReport

\* ---------------------------------------------------------- environment
\* A dog's tmux session ends.
SessionDies(g) ==
    /\ session[g]
    /\ session' = [session EXCEPT ![g] = FALSE]
    /\ UNCHANGED << dogState, dogWork, now, runHistory, pc, dogs, idx, pidx,
                    idleDog, lastOp, lastStart, stranded, fresh >>
    /\ UNCHANGED cycle
    /\ UNCHANGED notSched

\* Time passes.
Tick ==
    /\ now < MaxTime
    /\ now' = now + 1
    /\ UNCHANGED << dogState, dogWork, session, runHistory, pc, dogs, idx, pidx,
                    idleDog, lastOp, lastStart, stranded, fresh >>
    /\ UNCHANGED cycle
    /\ UNCHANGED notSched

\* The dogs that are working without a session and that no other daemon
\* is about to start a session for, when the process of daemon d dies.
LeftStranded(d) ==
    {g \in Dogs : /\ dogState[g] = StateWorking
                  /\ ~session[g]
                  /\ ~\E e \in Daemons \ {d} : pc[e] = "start" /\ idleDog[e] = g}

\* The process of daemon d dies in the middle of handleDogs; nothing of the
\* cycle is undone, and the next heartbeat of its successor starts a new
\* handleDogs call.  One process death is followed at a time: no further
\* process dies while dogs of an earlier death are still stranded.
Crash(d) ==
    /\ pc[d] # "idle"
    /\ stranded = {}
    /\ pc' = [pc EXCEPT ![d] = "idle"]
    /\ dogs' = [dogs EXCEPT ![d] = NoDogs]
    /\ idx' = [idx EXCEPT ![d] = 0]
    /\ pidx' = [pidx EXCEPT ![d] = 0]
    /\ idleDog' = [idleDog EXCEPT ![d] = NoDog]
    /\ lastOp' = Op(d, "died", 0, "ok")
    /\ stranded' = stranded \cup LeftStranded(d)
    /\ fresh' = {}
    /\ UNCHANGED << shared, lastStart >>
    /\ Track(d)
    /\ UNCHANGED notSched

DaemonStep(d) ==
    \/ HandleDogs(d)
    \/ CleanupList(d)
    \/ CleanupProbe(d)
    \/ CleanupClear(d)
    \/ Discover(d)
    \/ Gate(d)
    \/ FindIdleDog(d)
    \/ Assign(d)
    \/ Start(d)
    \/ Rollback(d)
    \/ Send(d)

\* The daemons and the dogs' sessions while the clock stands still: every
\* interleaving of heartbeats that fall within one clock unit.
Next ==
    \/ \E d \in Daemons : DaemonStep(d)
    \/ \E g \in Dogs : SessionDies(g)

Spec == Init /\ [][Next]_vars

\* The same with time passing between any two steps.
NextClock ==
    \/ \E d \in Daemons : DaemonStep(d)
    \/ \E g \in Dogs : SessionDies(g)
    \/ Tick

SpecClock == Init /\ [][NextClock]_vars

\* One scheduler whose process dies mid-cycle and is started again.
NextCrash ==
    \/ DaemonStep("d1")
    \/ \E g \in Dogs : SessionDies(g)
    \/ Crash("d1")

SpecCrash == Init /\ [][NextCrash]_vars

\* One scheduler with the history of its dispatch passes kept, next to the
\* stuck-repair passes of a second instance whose discovery finds nothing.
InitCycle ==
    /\ SchedInit
    /\ now = 0
    /\ MailInit
    /\ PendInit
    /\ FlatInit
    /\ TestsrvInit
    /\ flockKind = "dropped"
    /\ cycle = [d \in {"d1"} |-> NoCycle]
    /\ ReapInit
    /\ PluginInit
    /\ GasTownInit

NextCycle ==
    \/ DaemonStep("d1")
    \/ HandleDogs("d2")
    \/ CleanupList("d2")
    \/ CleanupProbe("d2")
    \/ CleanupClear("d2")
    \/ Discover("d2") /\ pc'["d2"] = "idle"
    \/ \E g \in Dogs : SessionDies(g)

SpecCycle == InitCycle /\ [][NextCycle]_vars

SpecMail == Init /\ [][NextMail]_vars

\* The messages the worker archives after reading them.
WorkerReads == {"mail-001", "mail-003"}

\* The tracker next to a worker that archives its own mail, with time
\* passing.
NextPending ==
    \/ checkMailboxForSpawns
    \/ \E list \in PendingLists, sess \in Sessions :
            clearPendingSpawnFromList(list, sess)
    \/ \E list \in PendingLists, maxAge \in MaxAges :
            pruneStalePendingFromList(list, maxAge)
    \/ \E id \in WorkerReads : ArchiveByID("worker", id)
    \/ Tick

InitPending ==
    /\ SchedInit
    /\ runHistory = {}
    /\ now = 1
    /\ inbox \in Fixtures
    /\ archive = << >>
    /\ listed = << >>
    /\ mbOp = [i \in Instances |-> MbOp(i, "none", "", "ok")]
    /\ PendInit
    /\ FlatInit
    /\ TestsrvInit
    /\ flockKind = "dropped"
    /\ cycle = NotKept
    /\ ReapInit
    /\ PluginInit
    /\ GasTownInit

SpecPending == InitPending /\ [][NextPending]_vars

SpecFlat == Init /\ [][NextFlat]_vars

\* The compactor over two databases, with either threshold.
InitDatabases ==
    /\ SchedInit
    /\ now = 0
    /\ MailInit
    /\ PendInit
    /\ FlatInitOn(Len(Databases), Thresholds)
    /\ TestsrvInit
    /\ flockKind = "dropped"
    /\ cycle = NotKept
    /\ ReapInit
    /\ PluginInit
    /\ GasTownInit

SpecDatabases == InitDatabases /\ [][NextFlat]_vars

\* The test processes on either kind of platform.
SpecTestsrv == InitOn(FlockKinds) /\ [][NextTestsrv]_vars

SpecReap == Init /\ [][NextReap]_vars

SpecEnsure == Init /\ [][NextEnsure]_vars

SpecGasTown == Init /\ [][NextGasTown]_vars

TypeOK ==
    /\ dogState \in [Dogs -> {StateIdle, StateWorking}]
    /\ session \in [Dogs -> BOOLEAN]
    /\ now \in 0..MaxTime
    /\ pc \in [Daemons -> {"idle", "list", "probe", "clear", "discover", "gate",
                           "getidle", "assign", "start", "rollback", "send"}]
    /\ idx \in [Daemons -> 0..NumDogs]
    /\ pidx \in [Daemons -> 0..Len(Plugins)]
    /\ idleDog \in [Daemons -> Dogs \cup {NoDog}]
    /\ stranded \in SUBSET Dogs
    /\ fresh \in SUBSET Daemons
    /\ Ids(inbox) \cup Ids(archive) \subseteq MsgIds \cup NoticeIds
    /\ Ids(listed) \subseteq MsgIds \cup NoticeIds
    /\ \A k \in 1..Len(pending) : pending[k].MailID \in NoticeIds
    /\ pendOp.op \in {"none", "scan", "clear", "prune"}
    /\ pendOp.res \in {"ok", "err", "nil mailbox"}
    /\ dbHead \in RootHash..MaxHash
    /\ nextHash \in (RootHash + 1)..(MaxHash + 1)
    /\ curBranch \in {"main", "temp"}
    /\ flatOut \in Outcomes \cup {"none"}
    /\ tally \in [Outcomes -> 0..(1 + Len(others))]
    /\ threshold \in Thresholds
    /\ dbName \in {Databases[i] : i \in 1..Len(Databases)}
    /\ Len(others) < Len(Databases)
    /\ injectedSessions \subseteq SessionIds
    /\ Len(Delivered) <= MaxEvents
    /\ Len(awaits) <= MaxEvents
    /\ fd \in [Procs -> Inodes \cup {NoInode}]
    /\ flock \in [Procs -> {"none", "sh", "ex"}]
    /\ lockPath \in Inodes \cup {NoInode}
    /\ pidFile \in Servers \cup {NoServer}
    /\ flockKind \in FlockKinds
    /\ procTable \subseteq ProcessPool /\ Cardinality(procTable) <= MaxProcs
    /\ pidFiles \subseteq {f.port : f \in PidFilePool}
    /\ killedPIDs \subseteq Pids \cup NotRun \cup UNION KilledSets
    /\ lockFiles \subseteq {f.port : f \in PidFilePool}
    /\ files \in [FilePaths -> Contents]
    /\ ensured.res \in {"none", "nil", "creating plugin directory",
                          "writing plugin", "writing plugin package.json"}
    /\ \A i \in Instances :
          /\ mbOp[i].who = i
          /\ mbOp[i].op \in {"none", "Append", "List", "ListArchived", "ArchiveByID"}

\* ------------------------------------------------------------- claims
\* The pcs of an iteration of the range over plugins after AssignWork
\* succeeded.
Claimed == {"start", "rollback", "send"}

\* The pcs a daemon is at after the Rollback step.
AfterItem == {"gate", "getidle", "idle"}

\* C1 as stated, on a cycle whose last item is rolled back: when the
\* rollback of a failed Session.Start is the last step of the cycle, the
\* worker is Idle at the end of the cycle.
C1_EndsCycleIdle ==
    [][\A d \in Daemons :
        (pc[d] = "rollback" /\ pc'[d] = "idle") => dogState'[idleDog[d]] = StateIdle]_vars

\* C1, amended: a failed Session.Start after a successful AssignWork always
\* leads to one ClearWork call for that worker before the next item, and
\* when that call succeeds the worker is Idle with no work description.
C1_RollbackClearsWork ==
    [][\A d \in Daemons :
        /\ (pc[d] = "start" /\ pc'[d] # "start") =>
              /\ lastOp' \in {Op(d, "Start", idleDog[d], r) : r \in {"ok", "err"}}
              /\ lastOp'.res = "err" <=> pc'[d] = "rollback"
              /\ idleDog'[d] = idleDog[d]
        /\ (pc[d] = "rollback" /\ pc'[d] # "rollback") =>
              /\ lastOp' \in {Op(d, "ClearWork", idleDog[d], r) : r \in {"ok", "err"}}
              /\ pc'[d] \in AfterItem
              /\ lastOp'.res = "ok" =>
                    /\ dogState'[idleDog[d]] = StateIdle
                    /\ dogWork'[idleDog[d]] = ""]_vars

\* C1 witness: a rollback has just succeeded.
C1_Witness ==
    \E d \in Daemons :
        /\ lastOp.who = d /\ lastOp.op = "ClearWork" /\ lastOp.res = "ok"
        /\ pc[d] \in AfterItem
        /\ dogState[lastOp.arg] = StateIdle

\* C2: while one daemon holds a claim on a dog (its AssignWork succeeded
\* and the dog is still Working), the AssignWork of another daemon that
\* got the same dog from GetIdleDog fails, changes nothing and is not
\* followed by Session.Start; a daemon goes on to Session.Start only after
\* its own AssignWork took the dog from Idle to Working.
C2_OneClaimWins ==
    [][\A d \in Daemons :
        (pc[d] = "assign" /\ pc'[d] # "assign") =>
            /\ (\E e \in Daemons \ {d} :
                    /\ pc[e] \in Claimed
                    /\ idleDog[e] = idleDog[d]
                    /\ dogState[idleDog[d]] = StateWorking)
               => /\ pc'[d] # "start"
                  /\ lastOp' = Op(d, "AssignWork", idleDog[d], "err")
                  /\ UNCHANGED << dogState, dogWork >>
            /\ pc'[d] = "start" =>
                  /\ dogState[idleDog[d]] = StateIdle
                  /\ dogState'[idleDog[d]] = StateWorking
                  /\ lastOp' = Op(d, "AssignWork", idleDog[d], "ok")]_vars

\* C2 witness: a daemon's AssignWork has just failed on the dog another
\* daemon claimed and is about to start a session for.
C2_Witness ==
    \E d \in Daemons : \E e \in Daemons \ {d} :
        /\ lastOp = Op(d, "AssignWork", idleDog[e], "err")
        /\ pc[e] = "start"
        /\ dogState[idleDog[e]] = StateWorking

\* C3: a dog has a work description exactly when it is Working, and the
\* description is that of a single dispatched plugin.
C3_WorkIffWorking ==
    \A g \in Dogs :
        /\ dogWork[g] # "" <=> dogState[g] = StateWorking
        /\ dogWork[g] \in {""} \cup {WorkDesc(Plugins[i]) : i \in 1..Len(Plugins)}

\* C3 witness: one dog Working on a plugin and another returned to Idle by
\* a ClearWork.
C3_Witness ==
    /\ \E g \in Dogs : dogState[g] = StateWorking /\ dogWork[g] = "plugin:cool"
    /\ lastOp.op = "ClearWork" /\ lastOp.res = "ok"
    /\ dogState[lastOp.arg] = StateIdle /\ dogWork[lastOp.arg] = ""

\* A step of daemon d.
Stepped(d) == pc'[d] # pc[d] \/ pidx'[d] # pidx[d] \/ idx'[d] # idx[d]

\* The plugins a step of d in the range over plugins passes over without
\* asking for an idle dog.
PassedOver(d) ==
    LET lo == IF pc[d] = "gate" THEN pidx[d] ELSE pidx[d] + 1
        hi == IF pc'[d] = "idle" THEN Len(Plugins) + 1 ELSE pidx'[d]
    IN  lo..(hi - 1)

\* A step of d that goes on in the range over plugins.
RangeStep(d) ==
    /\ Stepped(d)
    /\ \/ pc[d] \in {"gate", "assign", "rollback", "send"}
       \/ pc[d] = "discover" /\ lastOp'.res = "ok"

\* The gate policy as the claim C4 states it.
StatedEligible(p) ==
    \/ p.gate = NoGate
    \/ p.gate # GateCooldown
    \/ CountRunsSince(p.name, p.duration) = 0

\* The gate policy of dispatchPlugins.
CooldownOpen(p) ==
    /\ p.gate # NoGate
    /\ p.gate = GateCooldown
    /\ p.duration = 0 \/ CountRunsSince(p.name, p.duration) = 0

\* C4 as stated: the dispatch pass asks for an idle dog for exactly the
\* plugins whose gate is absent, or not a cooldown, or whose count of
\* recent runs is 0 (gate evaluations that fail with an error aside).
C4_StatedPolicy ==
    [][\A d \in Daemons :
        (RangeStep(d) /\ lastOp'.res # "err") =>
            /\ \A k \in PassedOver(d) : ~StatedEligible(Plugins[k])
            /\ pc'[d] = "getidle" => StatedEligible(Plugins[pidx'[d]])]_vars

\* C4, amended: the dispatch pass asks for an idle dog for exactly the
\* plugins that have a gate of cooldown type whose duration is empty or
\* whose CountRunsSince returns 0 without error.
C4_CooldownOnly ==
    [][\A d \in Daemons :
        RangeStep(d) =>
            /\ \A k \in PassedOver(d) :
                  \/ ~CooldownOpen(Plugins[k])
                  \/ /\ k = pidx[d]
                     /\ lastOp' = Op(d, "CountRunsSince", k, "err")
            /\ pc'[d] = "getidle" =>
                  /\ CooldownOpen(Plugins[pidx'[d]])
                  /\ pidx'[d] = pidx[d] =>
                        lastOp' = Op(d, "CountRunsSince", pidx[d], "ok")]_vars

\* C4 witness: a cycle found "cool" in cooldown, passed over the plugin
\* without gate and the cron plugin, and asks for an idle dog for "open".
C4_Witness ==
    \E d \in Daemons :
        /\ pc[d] = "getidle" /\ pidx[d] = PluginIndex("open")
        /\ lastOp = Op(d, "CountRunsSince", PluginIndex("cool"), "ok")
        /\ CountRunsSince("cool", 2) > 0

\* C5: a session is started for a plugin with a cooldown duration only
\* when no session was started for it before or the duration has elapsed
\* since the last one.
C5_NoRedispatchInCooldown ==
    [][\A d \in Daemons :
        (pc[d] = "start" /\ pc'[d] = "send") =>
            LET p == Plugins[pidx[d]] IN
            HasDuration(p) =>
                \/ lastStart[p.name] = -1
                \/ now - lastStart[p.name] >= p.duration]_vars

\* C6: the run history gains a record exactly when an item's dispatch
\* goes through the mail-send step, for that item.
C6_RunsRecorded ==
    [][/\ \A d \in Daemons :
            (pc[d] = "send" /\ pc'[d] # "send") =>
                <<Plugins[pidx[d]].name, now>> \in runHistory'
       /\ runHistory' # runHistory =>
            \E d \in Daemons :
                /\ pc[d] = "send" /\ pc'[d] # "send"
                /\ runHistory' = runHistory \cup {<<Plugins[pidx[d]].name, now>>}]_vars

\* C7 as stated: the ClearWork step of the stuck-repair pass leaves the
\* dog whose probe returned false Idle.
C7_RepairedToIdle ==
    [][\A d \in Daemons :
        (pc[d] = "clear" /\ pc'[d] # "clear") => dogState'[idx[d]] = StateIdle]_vars

\* C7, amended: for every dog listed Working whose probe returns false
\* the pass calls ClearWork exactly once (the probe is followed by the
\* call, and the range never comes back to the dog); when the call
\* succeeds the dog is Idle with no work, so GetIdleDog can return it.
C7_RepairClearsOnce ==
    [][\A d \in Daemons :
        /\ (pc[d] = "probe" /\ Stepped(d)) =>
              /\ lastOp' \in {Op(d, "IsRunning", idx[d], r) : r \in {"err", "running", "dead"}}
              /\ lastOp'.res = "dead" <=> pc'[d] = "clear"
              /\ lastOp'.res = "dead" => idx'[d] = idx[d] /\ ~session[idx[d]]
        /\ (pc[d] = "clear" /\ Stepped(d)) =>
              /\ lastOp' \in {Op(d, "ClearWork", idx[d], r) : r \in {"ok", "err"}}
              /\ pc'[d] \in {"probe", "discover"}
              /\ pc'[d] = "probe" => idx'[d] > idx[d]
              /\ lastOp'.res = "ok" =>
                    /\ dogState'[idx[d]] = StateIdle
                    /\ dogWork'[idx[d]] = ""
                    /\ GetIdleDog' \in 1..idx[d]]_vars

\* C7 witness: the stuck-repair pass has just cleared a dog.
C7_Witness ==
    \E d \in Daemons :
        /\ lastOp.who = d /\ lastOp.op = "ClearWork" /\ lastOp.res = "ok"
        /\ pc[d] \in {"probe", "discover"}
        /\ dogState[lastOp.arg] = StateIdle

\* C8: the stuck-repair pass changes no dog while it lists and probes; a
\* probe that errors or reports a live session is followed by the next
\* dog listed Working (or the end of the pass), never by ClearWork; only
\* a dog listed Working whose probe returned false reaches ClearWork, and
\* that call changes no other dog.
C8_RepairLeavesOthers ==
    [][\A d \in Daemons :
        /\ (pc[d] \in {"list", "probe"} /\ Stepped(d)) =>
              UNCHANGED << dogState, dogWork, session >>
        /\ (pc[d] = "probe" /\ Stepped(d) /\ lastOp'.res \in {"err", "running"}) =>
              LET n == NextWorking(idx[d] + 1, dogs[d]) IN
              IF n = NoDog
              THEN pc'[d] = "discover"
              ELSE pc'[d] = "probe" /\ idx'[d] = n
        /\ (pc[d] # "clear" /\ pc'[d] = "clear") =>
              /\ pc[d] = "probe"
              /\ dogs[d][idx'[d]] = StateWorking
              /\ lastOp' = Op(d, "IsRunning", idx'[d], "dead")
        /\ (pc[d] = "clear" /\ Stepped(d)) =>
              \A g \in Dogs \ {idx[d]} :
                  dogState'[g] = dogState[g] /\ dogWork'[g] = dogWork[g]]_vars

\* C8 witness: a probe has just errored on a Working dog and the pass
\* goes on with a later dog.
C8_Witness ==
    \E d \in Daemons :
        /\ lastOp.who = d /\ lastOp.op = "IsRunning" /\ lastOp.res = "err"
        /\ pc[d] = "probe" /\ idx[d] > lastOp.arg
        /\ dogState[lastOp.arg] = StateWorking

\* The calls made for one dog or one plugin.
ItemOps == {"IsRunning", "ClearWork", "CountRunsSince", "GetIdleDog", "AssignWork", "Start"}

\* The step of d leaves dogs or plugins of its cycle unprocessed.
Aborted(d) ==
    \/ /\ pc[d] \in {"probe", "clear"}
       /\ pc'[d] \notin {"probe", "clear"}
       /\ NextWorking(idx[d] + 1, dogs[d]) # NoDog
    \/ /\ pc[d] \in {"gate", "getidle", "assign", "start", "rollback", "send"}
       /\ pc'[d] = "idle"
       /\ NextGated(pidx[d] + 1) # 0

\* C9 as stated: no failed call made for one dog or one plugin aborts the
\* rest of the cycle.
C9_NoFailureAborts ==
    [][\A d \in Daemons :
        (Stepped(d) /\ lastOp'.res = "err" /\ lastOp'.op \in ItemOps) => ~Aborted(d)]_vars

\* C9, amended: a failed IsRunning, ClearWork, CountRunsSince, AssignWork
\* or Session.Start is followed by the next dog or the next gated plugin
\* (a failed Start by its rollback first); an error of GetIdleDog ends the
\* dispatch pass.
C9_FailuresIsolated ==
    [][\A d \in Daemons :
        (Stepped(d) /\ lastOp'.res = "err") =>
            /\ lastOp'.op \in ItemOps \ {"GetIdleDog"} => ~Aborted(d)
            /\ lastOp'.op = "Start" => pc'[d] = "rollback"
            /\ lastOp'.op \in {"CountRunsSince", "AssignWork"}
               \/ (lastOp'.op = "ClearWork" /\ pc[d] = "rollback") =>
                  LET k == NextGated(pidx[d] + 1) IN
                  IF k = 0 THEN pc'[d] = "idle"
                  ELSE pidx'[d] = k /\ pc'[d] \in {"gate", "getidle"}
            /\ lastOp'.op = "GetIdleDog" => pc'[d] = "idle"]_vars

\* C9 witness: a rollback has just failed and the cycle goes on with the
\* next gated plugin.
C9_Witness ==
    \E d \in Daemons :
        /\ lastOp.who = d /\ lastOp.op = "ClearWork" /\ lastOp.res = "err"
        /\ pc[d] = "getidle" /\ pidx[d] = PluginIndex("open")
        /\ dogState[lastOp.arg] = StateWorking

\* C10: GetIdleDog reports no dog exactly when every dog is Working; the
\* cycle then ends at once, with no change to any dog, session or run
\* record, and the next dispatch pass starts again from the first plugin.
C10_NoIdleDogDefers ==
    [][\A d \in Daemons :
        /\ (pc[d] = "getidle" /\ Stepped(d)) =>
              /\ lastOp'.who = d /\ lastOp'.op = "GetIdleDog"
              /\ lastOp'.res = "nil" =>
                    /\ \A g \in Dogs : dogState[g] = StateWorking
                    /\ pc'[d] = "idle"
                    /\ UNCHANGED << dogState, dogWork, session, runHistory, lastStart, stranded, fresh >>
              /\ lastOp'.res = "ok" =>
                    /\ dogState[idleDog'[d]] = StateIdle
                    /\ pc'[d] = "assign"
        /\ (pc[d] = "discover" /\ pc'[d] \in {"gate", "getidle"}) =>
              pidx'[d] = NextGated(1)]_vars

\* C10 witness: a cycle has just ended on "no idle dog" at the first
\* plugin, with a later gated plugin left for the next cycle.
C10_Witness ==
    \E d \in Daemons :
        /\ lastOp = Op(d, "GetIdleDog", PluginIndex("cool"), "nil")
        /\ pc[d] = "idle"
        /\ NextGated(PluginIndex("cool") + 1) # 0
        /\ \A g \in Dogs : dogState[g] = StateWorking

\* C11: the step that calls Router.Send, failing or not, changes no dog and
\* no session, is never followed by the rollback's ClearWork, and goes on
\* with the next gated plugin (or ends the pass after the last one).
C11_SendNotRolledBack ==
    [][\A d \in Daemons :
        (pc[d] = "send" /\ Stepped(d)) =>
            /\ lastOp' \in {Op(d, "Send", idleDog[d], r) : r \in {"ok", "err"}}
            /\ UNCHANGED << dogState, dogWork, session >>
            /\ pc'[d] # "rollback"
            /\ LET k == NextGated(pidx[d] + 1) IN
               IF k = 0 THEN pc'[d] = "idle"
               ELSE pidx'[d] = k /\ pc'[d] \in {"gate", "getidle"}]_vars

\* C11 witness: a send has just failed; the dog is Working with its work
\* description and a live session, and the cycle is at the next plugin.
C11_Witness ==
    \E d \in Daemons :
        /\ lastOp.who = d /\ lastOp.op = "Send" /\ lastOp.res = "err"
        /\ pc[d] \in {"gate", "getidle"} /\ pidx[d] > PluginIndex("cool")
        /\ dogState[lastOp.arg] = StateWorking
        /\ dogWork[lastOp.arg] = "plugin:cool"
        /\ session[lastOp.arg]

\* C12: a cooldown gate whose duration is no duration is inactive: the
\* gate evaluation of such a plugin is always followed by the request for
\* an idle dog for that plugin.
C12_MalformedFailsOpen ==
    [][\A d \in Daemons :
        (pc[d] = "gate" /\ Stepped(d) /\ ~DurationValid(Plugins[pidx[d]].duration)) =>
            pc'[d] = "getidle" /\ pidx'[d] = pidx[d]]_vars

\* The step is the death of a daemon process.
DiedStep == lastOp'.op = "died" /\ lastOp.op # "died"

\* C13 as stated: when a cycle that began after the process died ends,
\* no dog the dead process left working without a session is still
\* waiting to be cleared.
C13_ReconvergesNextCycle ==
    [][\A d \in Daemons :
        (pc[d] # "idle" /\ pc'[d] = "idle" /\ d \in fresh') => stranded' = {}]_vars

\* C13, amended: the dying process undoes nothing; a dog it left working
\* without a session stays so until a ClearWork succeeds for it; the
\* stuck-repair pass of a cycle that begins afterwards, when List
\* succeeds, lists the dog as working and probes the dogs listed working
\* in order without skipping any; the probe of a stranded dog never
\* reports a live session, and when it reports a dead one the ClearWork
\* that follows, if it succeeds, leaves the dog Idle.
C13_RepairAfterCrash ==
    [][\A d \in Daemons :
        /\ (DiedStep /\ lastOp'.who = d) =>
              /\ UNCHANGED << dogState, dogWork, session, runHistory >>
              /\ pc'[d] = "idle"
        /\ \A g \in stranded' : dogState'[g] = StateWorking /\ ~session'[g]
        /\ \A g \in stranded \ stranded' :
              lastOp'.op = "ClearWork" /\ lastOp'.arg = g /\ lastOp'.res = "ok"
              /\ dogState'[g] = StateIdle /\ dogWork'[g] = ""
        /\ (pc[d] = "list" /\ Stepped(d) /\ ~DiedStep /\ lastOp'.res = "ok" /\ stranded # {}) =>
              /\ \A g \in stranded : dogs'[d][g] = StateWorking
              /\ pc'[d] = "probe"
              /\ idx'[d] = NextWorking(1, dogs'[d])
        /\ (pc[d] = "probe" /\ Stepped(d) /\ ~DiedStep) =>
              /\ idx[d] \in stranded => lastOp'.res \in {"err", "dead"}
              /\ IF lastOp'.res = "dead"
                 THEN pc'[d] = "clear" /\ idx'[d] = idx[d]
                 ELSE LET n == NextWorking(idx[d] + 1, dogs[d]) IN
                      IF n = NoDog THEN pc'[d] = "discover"
                      ELSE pc'[d] = "probe" /\ idx'[d] = n
        /\ (pc[d] = "clear" /\ Stepped(d) /\ ~DiedStep) =>
              /\ lastOp' \in {Op(d, "ClearWork", idx[d], r) : r \in {"ok", "err"}}
              /\ lastOp'.res = "ok" => idx[d] \notin stranded' /\ dogState'[idx[d]] = StateIdle
              /\ LET n == NextWorking(idx[d] + 1, dogs[d]) IN
                 IF n = NoDog THEN pc'[d] = "discover"
                 ELSE pc'[d] = "probe" /\ idx'[d] = n]_vars

\* C13 witness: the process died between AssignWork and Session.Start, and
\* the stuck-repair pass of the next cycle has cleared the dog it left.
C13_Witness ==
    /\ stranded = {}
    /\ fresh # {}
    /\ \E d \in fresh :
        /\ lastOp.who = d /\ lastOp.op = "ClearWork" /\ lastOp.res = "ok"
        /\ pc[d] \in {"probe", "discover"}
        /\ dogState[lastOp.arg] = StateIdle

\* The calls a daemon at most still makes before its handleDogs call
\* returns, from its place in the two ranges.
StepsLeft(p, i, k) ==
    LET perPlugin == 6
        dispatch == perPlugin * Len(Plugins) + 1
        item == perPlugin * (Len(Plugins) - k)
        dog == 2 * (NumDogs - i)
    IN  CASE p = "idle"     -> 0
          [] p = "list"     -> dispatch + 2 * NumDogs + 1
          [] p = "probe"    -> dispatch + dog + 2
          [] p = "clear"    -> dispatch + dog + 1
          [] p = "discover" -> dispatch
          [] p = "gate"     -> item + 6
          [] p = "getidle"  -> item + 5
          [] p = "assign"   -> item + 4
          [] p = "start"    -> item + 3
          [] p = "rollback" -> item + 2
          [] p = "send"     -> item + 2

\* C14 as stated: when a cycle ends, handleDogs reports an aggregate
\* outcome.
C14_ReportsOutcome ==
    [][\A d \in Daemons :
        (pc[d] # "idle" /\ pc'[d] = "idle") => CycleReport(d) # NoReport]_vars

\* C14, amended: every step of a daemon inside a cycle, whatever the
\* collaborator answers, strictly decreases the number of calls the cycle
\* can still make, a daemon inside a cycle always has a next step, and a
\* daemon whose cycle ended or failed can start the next one.
C14_CycleTerminates ==
    [][\A d \in Daemons :
        /\ (pc[d] # "idle" /\ DaemonStep(d)) =>
              StepsLeft(pc'[d], idx'[d], pidx'[d]) < StepsLeft(pc[d], idx[d], pidx[d])
        /\ ENABLED DaemonStep(d)
        /\ pc[d] = "idle" => ENABLED HandleDogs(d)]_vars

\* C14 witness: a cycle has run to the mail send of the last plugin and
\* ended.
C14_Witness ==
    \E d \in Daemons :
        /\ lastOp.who = d /\ lastOp.op = "Send" /\ lastOp.res = "err"
        /\ pc[d] = "idle"

ClearingDog(d) ==
    IF pc[d] = "clear" THEN idx[d]
    ELSE IF pc[d] = "rollback" THEN idleDog[d]
    ELSE NoDog

Message(id) == CHOOSE m \in Messages : m.id = id

WellFormedNotice(msg) ==
    /\ Len(msg.subject) >= 3
    /\ msg.subject[1] = "POLECAT_STARTED" /\ msg.subject[2] = " "
    /\ \E k \in 3..Len(msg.subject) : msg.subject[k] = "/"
    /\ \E j \in 1..Len(msg.body) :
          Len(msg.body[j]) > 2 /\ msg.body[j][1] = "Session" /\ msg.body[j][2] = ": "
    /\ \E j \in 1..Len(msg.body) :
          Len(msg.body[j]) > 2 /\ msg.body[j][1] = "Issue" /\ msg.body[j][2] = ": "

\* C21: a scan can always succeed, and a successful scan returns exactly
\* one PendingSpawn for each active started notification, carrying the
\* message's id, its rig, polecat, session and issue and a non-nil mailbox,
\* and none for any other message, malformed or archived.
C21_ScanExact ==
    [][/\ ENABLED (checkMailboxForSpawns /\ pendOp'.res = "ok")
       /\ (checkMailboxForSpawns /\ pendOp'.res = "ok") =>
            /\ pendOp'.n = Len(pending')
            /\ \A k \in 1..Len(inbox) :
                  WellFormedNotice(inbox[k]) =>
                      /\ Cardinality({j \in 1..Len(pending') :
                                        pending'[j].MailID = inbox[k].id}) = 1
                      /\ \E j \in 1..Len(pending') :
                            /\ pending'[j].MailID = inbox[k].id
                            /\ pending'[j].mailbox # NilMailbox
                            /\ pending'[j].SpawnedAt = inbox[k].timestamp
                            /\ << "POLECAT_STARTED", " " >> \o pending'[j].Rig
                                  \o << "/" >> \o pending'[j].Polecat = inbox[k].subject
                            /\ \E l \in 1..Len(inbox[k].body) :
                                  inbox[k].body[l] =
                                      << "Session", ": " >> \o pending'[j].Session
            /\ \A j \in 1..Len(pending') :
                  \E k \in 1..Len(inbox) :
                      /\ inbox[k].id = pending'[j].MailID
                      /\ WellFormedNotice(inbox[k])]_vars

\* C21 witness: with "mail-001" archived and the notification without a
\* Session line still active, a scan has returned the one spawn of
\* "mail-002", for gastown/Toast.
C21_Witness ==
    /\ pendOp = PendOp("scan", << >>, "ok", 1)
    /\ "mail-001" \in Ids(archive)
    /\ "mail-007" \in Ids(inbox)
    /\ Len(pending) = 1
    /\ pending[1].MailID = "mail-002"
    /\ pending[1].Rig = << "gastown" >> /\ pending[1].Polecat = << "Toast" >>
    /\ pending[1].Session = Toast /\ pending[1].Issue = << "gt-abc" >>
    /\ pending[1].mailbox = TheMailbox

\* The ids of the entries of a list for a session.
MailIDsFor(list, sess) ==
    {list[k].MailID : k \in {j \in 1..Len(list) : list[j].Session = sess}}

\* C22: a clear for a session never touches a message that is not the
\* source of an entry of that session; a successful clear leaves exactly
\* the active messages of that session's entries archived; with no entry
\* of the session the clear succeeds and changes nothing.
C22_ClearExact ==
    [][\A list \in PendingLists : \A sess \in Sessions :
        /\ clearPendingSpawnFromList(list, sess) =>
              /\ \A id \in Ids(inbox) \ MailIDsFor(list, sess) : id \in Ids(inbox')
              /\ Ids(archive') \subseteq Ids(archive) \cup MailIDsFor(list, sess)
              /\ Ids(inbox') \cup Ids(archive') = Ids(inbox) \cup Ids(archive)
        /\ (clearPendingSpawnFromList(list, sess) /\ pendOp'.res = "ok") =>
              /\ Ids(inbox') = Ids(inbox) \ MailIDsFor(list, sess)
              /\ Ids(archive') =
                    Ids(archive) \cup (Ids(inbox) \cap MailIDsFor(list, sess))
        /\ MailIDsFor(list, sess) = {} =>
              /\ ENABLED clearPendingSpawnFromList(list, sess)
              /\ clearPendingSpawnFromList(list, sess) =>
                    /\ pendOp'.res = "ok"
                    /\ UNCHANGED << inbox, archive >>]_vars

\* C22 witness: of the three scanned spawns the two of Toast's session
\* were cleared; Nux's notification is the one left active.
C22_Witness ==
    /\ pendOp = PendOp("clear", Toast, "ok", 2)
    /\ Len(pending) = 3
    /\ Ids(inbox) = {"mail-003"}
    /\ Ids(archive) = {"mail-001", "mail-002"}

\* Whether a list has an entry without a mailbox among those selected.
HasNilEntry(list) == \E k \in 1..Len(list) : list[k].mailbox = NilMailbox

\* C23: a clear or a prune that has an entry without a mailbox among those
\* it would archive never returns success, and returns the nil-mailbox
\* error unless a storage error ended the call before that entry.
C23_NilMailboxError ==
    [][\A list \in PendingLists :
        /\ \A sess \in Sessions :
              HasNilEntry(ForSession(list, sess)) =>
                  /\ ENABLED (clearPendingSpawnFromList(list, sess)
                                /\ pendOp'.res = "nil mailbox")
                  /\ clearPendingSpawnFromList(list, sess) =>
                        /\ pendOp'.res \in {"nil mailbox", "err"}
                        /\ pendOp'.res = "err" =>
                              pendOp'.n < Len(ForSession(list, sess)) - 1
        /\ \A maxAge \in MaxAges :
              HasNilEntry(Stale(list, maxAge)) =>
                  /\ ENABLED (pruneStalePendingFromList(list, maxAge)
                                /\ pendOp'.res = "nil mailbox")
                  /\ pruneStalePendingFromList(list, maxAge) =>
                        /\ pendOp'.res \in {"nil mailbox", "err"}
                        /\ pendOp'.res = "err" =>
                              pendOp'.n < Len(Stale(list, maxAge)) - 1]_vars

\* C23 witness: a clear of Toast's session over the scanned spawns
\* followed by an entry without a mailbox archived the two scanned ones
\* and then returned the nil-mailbox error.
C23_Witness ==
    /\ pendOp = PendOp("clear", Toast, "nil mailbox", 2)
    /\ Len(pending) = 3
    /\ Ids(archive) = {"mail-001", "mail-002"}

\* The entries of a list that are more than maxAge old, by position.
OlderThan(list, maxAge) ==
    {k \in 1..Len(list) : now - list[k].SpawnedAt > maxAge}

\* C24: a prune never touches a message that is not the source of an entry
\* more than maxAge old; a successful prune leaves exactly the active
\* messages of those entries archived, every younger entry's message
\* where it was, and returns the number of those entries.
C24_PruneExact ==
    [][\A list \in PendingLists : \A maxAge \in MaxAges :
        LET old == {list[k].MailID : k \in OlderThan(list, maxAge)}
        IN  /\ pruneStalePendingFromList(list, maxAge) =>
                  /\ \A id \in Ids(inbox) \ old : id \in Ids(inbox')
                  /\ Ids(archive') \subseteq Ids(archive) \cup old
            /\ (pruneStalePendingFromList(list, maxAge) /\ pendOp'.res = "ok") =>
                  /\ Ids(inbox') = Ids(inbox) \ old
                  /\ Ids(archive') = Ids(archive) \cup (Ids(inbox) \cap old)
                  /\ pendOp'.n = Cardinality(OlderThan(list, maxAge))]_vars

\* C24 witness: at minute 2, of three scanned spawns from minutes 0, 1
\* and 1, a prune with maxAge 1 archived the one from minute 0 and
\* returned 1.
C24_Witness ==
    /\ pendOp = PendOp("prune", 1, "ok", 1)
    /\ now = 2
    /\ Len(pending) = 3
    /\ Ids(archive) = {"mail-001"}
    /\ Ids(inbox) = {"mail-002", "mail-003"}

\* The last flatten was given up at step 10: it had built the flattened
\* commit and returned (false, nil).
GaveUp == flatOut = "skipped" /\ newHead # NoHash

\* C25: the compactor moves main only by the hard reset to the flattened
\* commit, which it reaches only from a step-10 read of main's HEAD equal
\* to the HEAD recorded at step 2, after the flattened commit was built;
\* when the read differs main stays as it is, the temp branch is deleted
\* unless the delete fails, the flatten returns (false, nil), the cycle
\* counts the database as skipped, and the database is still over the
\* threshold for the next cycle.
C25_ResetOnlyIfUnmoved ==
    [][/\ (CompactorStep /\ dbHead' # dbHead) =>
              cpc = "hardreset" /\ dbHead' = newHead
       /\ (cpc' = "hardreset" /\ cpc # "hardreset") =>
              /\ cpc = "verifyhead"
              /\ dbHead = mainHead
              /\ newHead = tempBranch.head /\ newHead \notin {NoHash, mainHead}
       /\ (VerifyMainHead /\ dbHead # mainHead) =>
              /\ UNCHANGED << dbHead, dbCommits, dbData >>
              /\ flatOut' \in {"skipped", "failed"}
              /\ tempBranch' \in {NoBranch, tempBranch}
              /\ ENABLED (VerifyMainHead /\ flatOut' = "skipped"
                            /\ tempBranch' = NoBranch)
       /\ (Tally /\ GaveUp) =>
              /\ tally' = [NoTally EXCEPT !["skipped"] = 1]
              /\ cpc' = "idle"
              /\ dbCommits' >= Threshold]_vars

\* C25 witness: a cycle built the flattened commit, found main moved by a
\* writer, deleted the temp branch and counted the database as skipped;
\* main is where the writer left it.
C25_Witness ==
    /\ cpc = "idle"
    /\ GaveUp
    /\ tally = [NoTally EXCEPT !["skipped"] = 1]
    /\ dbHead # mainHead /\ dbHead # newHead
    /\ dbCommits = Threshold + 1 /\ dbData = Threshold
    /\ tempBranch = NoBranch

\* C26 as stated: CleanupDoltServer kills a server that accepts
\* connections only when no other test process holds the shared lock on
\* the file the port's lock file path names.
C26_NoKillWhileShared ==
    [][\A p \in Procs :
        (KillFromPidFile(p) /\ pidFile # NoServer /\ srv[pidFile] = "listening") =>
            \A q \in Procs \ {p} :
                ~(tpc[q] = "using" /\ flock[q] = "sh" /\ fd[q] = lockPath)]_vars

\* C27 as stated: once every test process has run CleanupDoltServer (or
\* has returned from startDoltServer with an error), no server whose
\* starter ran CleanupDoltServer still runs, none of them has a data dir
\* left, and the PID file names no such server.
C27_AllCleanedUp ==
    (\A p \in Procs : tpc[p] \in {"done", "failed"}) =>
        \A s \in Servers :
            (\E p \in Procs : cmd[p] = s /\ tpc[p] = "done") =>
                /\ srv[s] \in {"unborn", "dead"}
                /\ ~dataDir[s]
                /\ pidFile # s

\* ------------------------------------------------------------------ C28
\* The processes a reap must kill: those whose command line names dolt
\* sql-server and a dolt-test-server data dir, without the text
\* "--port 3307", that ps reports as maxAge old or older.
MustKill(procs, maxAge) ==
    {p \in procs : /\ p.server
                   /\ ~(p.port # << >> /\ Head(p.port) = "3307")
                   /\ p.elapsed >= maxAge}

\* The production server: on port 3307, with no test data dir.
Production == {p \in ProcessPool : p.port = << "3307" >> /\ ~p.server}

Calls(d, o) == lastOp'.who = d /\ lastOp'.op = o /\ pc'[d] # pc[d]

\* C30: for each dispatched item the scheduler's calls on the chosen
\* worker occur in the order AssignWork, Session.Start, Router.Send:
\* Session.Start is called only after AssignWork succeeded for that
\* worker, and a task message is sent to the worker's mailbox only after
\* Session.Start succeeded.  A daemon comes to start a session only by a
\* successful AssignWork on its chosen worker and to send only by a
\* successful Start on it, keeps the worker while it is there, and calls
\* Start and Send on that worker from there only.
C30_CallOrder ==
    [][\A d \in Daemons :
        /\ (pc'[d] = "start" /\ pc[d] # "start") =>
                /\ lastOp' = Op(d, "AssignWork", idleDog'[d], "ok")
                /\ dogState'[idleDog'[d]] = StateWorking
        /\ (pc'[d] = "send" /\ pc[d] # "send") =>
                /\ pc[d] = "start"
                /\ lastOp' = Op(d, "Start", idleDog[d], "ok")
                /\ session'[idleDog[d]]
        /\ (pc[d] \in {"start", "send"} /\ pc'[d] \in {"start", "send"}) =>
                idleDog'[d] = idleDog[d] /\ pidx'[d] = pidx[d]
        /\ Calls(d, "Start") => pc[d] = "start" /\ lastOp'.arg = idleDog[d]
        /\ Calls(d, "Send") => pc[d] = "send" /\ lastOp'.arg = idleDog[d]]_vars

\* A daemon has sent the task message to a worker whose session runs and
\* that holds the work.
C30_Witness ==
    \E d \in Daemons, g \in Dogs :
        /\ lastOp = Op(d, "Send", g, "ok")
        /\ session[g]
        /\ dogState[g] = StateWorking
        /\ dogWork[g] # ""

\* ------------------------------------------------------------------ C31
\* The positions of the stuck-repair pass.
RepairPcs == {"list", "probe", "clear"}

\* C31: in every cycle the stuck-repair pass over all workers completes
\* before the dispatch pass begins, so a worker returned to Idle by
\* stuck-repair can be claimed by the dispatch pass of the same cycle, and
\* the dispatch pass still runs when the stuck-repair pass could not list
\* the workers.  The dispatch pass begins only out of the repair pass, when
\* List failed or no listed working dog is left to probe; it never goes
\* back to the repair pass; and GetIdleDog answers from the registry as it
\* is then, so it finds a dog whenever one is Idle.
C31_RepairBeforeDispatch ==
    [][\A d \in Daemons :
        /\ (pc'[d] = "discover" /\ pc[d] # "discover") =>
            /\ pc[d] \in RepairPcs
            /\ \/ lastOp' = Op(d, "List", 0, "err")
               \/ pc[d] = "list" /\ \A g \in Dogs : dogState[g] # StateWorking
               \/ pc[d] \in {"probe", "clear"}
                    /\ \A g \in (idx[d] + 1)..NumDogs : dogs[d][g] # StateWorking
        /\ (pc[d] = "list" /\ lastOp' = Op(d, "List", 0, "err")) =>
                pc'[d] = "discover"
        /\ pc[d] \in DispatchPcs => pc'[d] \in DispatchPcs \cup {"idle"}
        /\ (pc[d] = "getidle" /\ pc'[d] # "getidle") =>
            /\ lastOp'.res = "ok" =>
                    dogState[idleDog'[d]] = StateIdle /\ pc'[d] = "assign"
            /\ lastOp'.res = "nil" => \A g \in Dogs : dogState[g] # StateIdle]_vars

\* The last call of a daemon's repair pass has returned a dog to Idle and
\* the daemon is at the start of the dispatch pass of that cycle.
C31_Witness ==
    \E d \in Daemons, g \in Dogs :
        /\ lastOp = Op(d, "ClearWork", g, "ok")
        /\ pc[d] = "discover"
        /\ dogState[g] = StateIdle

\* ------------------------------------------------------------------ C32
\* C32: compaction never discards a concurrent write: whenever
\* compactorDogFlattenDatabase returns (true, nil), main contains the data
\* of every commit made on main by any other writer up to the moment of
\* the hard reset, including commits made between the verification of
\* main's HEAD and the reset.  The hard reset never leaves main with less
\* data than it had.
C32_NoWriteDiscarded ==
    [][(cpc = "hardreset" /\ cpc' = "deltemp") => dbData' >= dbData]_vars

\* ------------------------------------------------------------------ C33
\* C33: no reachable state has a worker recorded Idle in the registry
\* while a session for it is alive: neither stuck-repair (also when run by
\* a second scheduler instance between another instance's AssignWork and
\* Session.Start) nor the rollback after a failed Session.Start returns a
\* worker to Idle while its session is running.
C33_NoIdleWithSession ==
    \A g \in Dogs : ~(dogState[g] = StateIdle /\ session[g])

\* ------------------------------------------------------------------ C34
\* How often dog g is in the sequence.
Count(seq, g) == Cardinality({i \in 1..Len(seq) : seq[i] = g})

C35_OneServer ==
    Cardinality({s \in Servers : srv[s] \in {"starting", "listening"}}) <= 1

\* ------------------------------------------------------------------ C36
\* C36 as stated: whenever startDoltServer has returned an error after it
\* launched a server process, that process is not running, its data dir
\* and the PID file naming it are removed, and the caller holds no lock
\* and has closed the lock file.
C36_ErrorLeavesNothing ==
    \A p \in Procs :
        (tpc[p] = "failed" /\ cmd[p] # NoServer) =>
            /\ srv[cmd[p]] = "dead"
            /\ ~dataDir[cmd[p]]
            /\ pidFile # cmd[p]
            /\ flock[p] = "none"
            /\ fd[p] = NoInode

\* ------------------------------------------------------------------ C37
\* C37 as stated, for a next cycle in which no statement fails: a temp
\* branch left behind by an earlier cycle is deleted in the next cycle, so
\* no cycle returns "skipped" from the commit count or the root check
\* while the branch still exists.
C37_LeftoverDeletedNextCycle ==
    [][(cpc \in {"count", "root"} /\ cpc' = "tally" /\ flatOut' = "skipped") =>
            tempBranch = NoBranch]_vars

\* ------------------------------------------------------------------ C38
\* What a compaction cycle can modify of the database it processes.
Content == << dbName, dbHead, dbCommits, dbData, tempBranch >>

\* The compactor has left position at with this step.
Leaves(at) == cpc = at /\ cpc' # at

\* C38: when the commit count is read and is below the threshold, or the
\* root hash is read and main's HEAD recorded before is the root commit,
\* the flatten returns (false, nil) without any statement that changes
\* the database; no step up to there changes it; the database is counted
\* as skipped; and after any database but the last, whatever its outcome,
\* the next database is processed from step 1.
C38_SkippedUntouchedAndLoopGoesOn ==
    [][/\ (Leaves("count") /\ dbCommits < threshold /\ flatOut' # "failed") =>
            (cpc' = "tally" /\ flatOut' = "skipped" /\ UNCHANGED Content)
       /\ (Leaves("head") \/ Leaves("root")) => UNCHANGED Content
       /\ (Leaves("root") /\ mainHead = RootHash /\ flatOut' # "failed") =>
            (cpc' = "tally" /\ flatOut' = "skipped")
       /\ (Leaves("tally") /\ flatOut = "skipped") =>
            (tally'.skipped = tally.skipped + 1)
       /\ (Leaves("tally") /\ dbName # LastDatabase) =>
            (cpc' = "count" /\ dbName' = Head(others).name /\ dbName' # dbName)
       /\ (Leaves("tally") /\ dbName = LastDatabase) => (cpc' = "idle")]_vars

\* A cycle over two databases has ended: the first failed, the second was
\* skipped because its HEAD is its root commit.
C38_Witness ==
    /\ cpc = "idle"
    /\ threshold = 1
    /\ tally = [NoTally EXCEPT !["failed"] = 1, !["skipped"] = 1]
    /\ others[1].head = RootHash /\ others[1].commits = 1
    /\ flatOut = "skipped"

\* ------------------------------------------------------------------ C39
\* The log entry is a call of injectGasTownContext for id made by the
\* handler of a session.created event.
IsCreatedCall(x, id) ==
    x.kind = "call" /\ x.type = "session.created" /\ x.sessionID = id

\* The log entry is a session.deleted event for id.
IsDeleted(x, id) ==
    x.kind = "event" /\ x.type = "session.deleted" /\ x.info = id

\* The log entry is a session.created event for id.
IsCreated(x, id) ==
    x.kind = "event" /\ x.type = "session.created" /\ CreatedSessionID(x) = id

\* Before log entry j the context was injected for id on a session.created
\* event and no session.deleted event for id has arrived since.
AlreadyInjected(id, j) ==
    \E i \in 1..(j - 1) :
        /\ IsCreatedCall(log[i], id)
        /\ \A k \in (i + 1)..(j - 1) : ~IsDeleted(log[k], id)

\* The number of log entries that satisfy test.
CountLog(test(_)) == Len(SelectSeq(log, test))

\* C39: a session.created event for an id makes the hook call
\* injectGasTownContext for it exactly when the id was not injected since
\* the last session.deleted event for it, and such calls are made on no
\* other occasion; so between two session.deleted events for an id there
\* is at most one.  Every session.compacted event has its call of
\* injectGasTownContext, made once getSessionContext has returned.
C39_OncePerSession ==
    /\ \A id \in SessionIds : \A j \in 1..Len(log) :
        /\ IsCreated(log[j], id) =>
            (AlreadyInjected(id, j) <=>
                ~(j < Len(log) /\ IsCreatedCall(log[j + 1], id)))
        /\ IsCreatedCall(log[j], id) => (j > 1 /\ IsCreated(log[j - 1], id))
    /\ \A j \in 1..Len(log) : ~IsCreatedCall(log[j], NoId)
    /\ CountLog(LAMBDA x : x.kind = "event" /\ x.type = "session.compacted")
        = CountLog(LAMBDA x : x.kind = "call" /\ x.type = "session.compacted")
            + Len(awaits)

\* A session was injected, its second session.created event was ignored
\* while a session.compacted event for it led to a second injection.
C39_Witness ==
    /\ Len(log) = 5
    /\ IsCreated(log[1], "s1") /\ IsCreatedCall(log[2], "s1")
    /\ IsCreated(log[3], "s1")
    /\ log[4] = Event("session.compacted", NoId, "s1")
    /\ log[5] = Call("s1", "session.compacted")

\* ------------------------------------------------------------------ C40
\* The PID file can be read and its first line holds a number.
HasPid(f) == f.readable /\ f.pid # CorruptPid

\* The PID file's process was killed by this call or is not running after
\* it.
NamesNoLiveProcess(f) ==
    HasPid(f) /\ (f.pid \in killedPIDs' \/ \A p \in procTable' : p.pid # f.pid)

\* C40: in every run of cleanupStalePIDFiles, by itself or at the end of
\* reapStaleDoltServers, a PID file is removed together with its lock
\* file if and only if its PID is in the killed set or no process with
\* that PID is running; a PID file that cannot be read or holds no number
\* is removed, its lock file is not; the PID file of a running process
\* that was not killed is kept with its lock file.
C40_StaleFilesRemoved ==
    [][(Reap(ReapMaxAge) \/ \E killed \in KilledSets : CleanupCalled(killed)) =>
        \A f \in {PidFileOf(port) : port \in pidFiles} :
            /\ NamesNoLiveProcess(f) =>
                (f.port \notin pidFiles' /\ f.port \notin lockFiles')
            /\ ~NamesNoLiveProcess(f) =>
                (f.port \in lockFiles => f.port \in lockFiles')
            /\ ~HasPid(f) => f.port \notin pidFiles'
            /\ (HasPid(f) /\ ~NamesNoLiveProcess(f)) => f.port \in pidFiles']_vars

\* cleanupStalePIDFiles has run with processes 11 and 17 in the killed
\* set while 17 and 12 were running: the PID file of 12 is the only one
\* left, and the lock files of the three unparsable files and of the
\* unreadable one are still there.
C40_Witness ==
    /\ killedPIDs = {11, 17}
    /\ {p.pid : p \in procTable} = {12, 17}
    /\ pidFiles = {"13307"}
    /\ lockFiles = {"13307", "8", "7", "6", "5"}
====
